---- MODULE Spec2Model ----
(***************************************************************************)
(* malcontent-action: the diff-result pipeline of the GitHub action.       *)
(*                                                                         *)
(* Two generations of the action's entry file are modelled:                *)
(*   "part_003"  src/unnamed/part_003, lines 306-1264 (Diff/Added/...      *)
(*               payloads, SARIF report, risk-delta output)                *)
(*   "index_js"  src/src/index.js (added/removed/modified payloads)        *)
(*                                                                         *)
(* JSON values are encoded as follows: an object is a record, a field that *)
(* is absent in the JSON is absent from the record (Has), an object whose  *)
(* entry order matters (Object.entries) is a sequence of [key, data]       *)
(* records, the JSON value null is the record NullData.                    *)
(***************************************************************************)
EXTENDS Integers, Sequences, FiniteSets, TLC

VARIABLES
    version,        \* which generation of the entry file runs
    pc,             \* position of run() / of the function under check
    payload,        \* the scanner's diff output (diffOutput)
    diff,           \* the DiffResult built by parseDiffOutput
    diffSummary,    \* generateDiffSummary(diff), a sequence of lines
    isPullRequest,  \* !!github.context.payload.pull_request
    commentOnPR,    \* input comment-on-pr
    failOnIncrease, \* input fail-on-increase
    fsFiles,        \* files of tempDir that exist
    outputs,        \* the outputs set with core.setOutput
    stepSummary,    \* whether core.summary was written
    failed,         \* core.setFailed: "none", "risk" or "error"
    thread,         \* the pull request's comments, in listing order
    comments,       \* postPRComment: the listing it obtained
    calls,          \* the create / update calls issued so far
    other,          \* a second run on the same pull request: its postPRComment
    detect          \* the composite action: its inputs and the end of its detect step

vars == <<version, pc, payload, diff, diffSummary, isPullRequest, commentOnPR,
          failOnIncrease, fsFiles, outputs, stepSummary, failed, thread,
          comments, calls, other, detect>>

---------------------------------------------------------------------------
(* Bounds of the model *)

\* files in one scanner payload, over the three buckets
MaxFiles == 2
\* behaviors in one scanner payload, over all files
MaxBehaviors == 2
\* comments on the pull request before the run
MaxComments == 2

---------------------------------------------------------------------------
(* JavaScript helpers *)

Has(r, f) == f \in DOMAIN r

\* the JSON value null
NullData == [null |-> TRUE]
IsNull(d) == Has(d, "null")

\* Array.isArray: a JSON array is encoded as [array |-> <<...>>]
IsArray(d) == Has(d, "array")

RECURSIVE SumSeq(_)
SumSeq(s) == IF s = <<>> THEN 0 ELSE Head(s) + SumSeq(Tail(s))

Map(s, F(_)) == [i \in 1..Len(s) |-> F(s[i])]

\* String.prototype.toLowerCase over the risk labels of the model
toLowerCase(s) ==
    CASE s \in {"CRITICAL", "Critical", "critical"} -> "critical"
      [] s \in {"HIGH", "High", "high"} -> "high"
      [] s \in {"MEDIUM", "Medium", "medium"} -> "medium"
      [] s \in {"LOW", "Low", "low"} -> "low"
      [] s \in {"UNKNOWN", "unknown"} -> "unknown"
      [] OTHER -> s

---------------------------------------------------------------------------
(* RiskModel *)

getRiskValue(risk) ==
    CASE toLowerCase(risk) = "critical" -> 10
      [] toLowerCase(risk) = "high" -> 5
      [] toLowerCase(risk) = "medium" -> 3
      [] toLowerCase(risk) = "low" -> 1
      [] OTHER -> 0

\* x.f || dflt for a string field: absent and "" are falsy
StrOr(r, f, dflt) == IF Has(r, f) /\ r[f] # "" THEN r[f] ELSE dflt

\* x.f || dflt for a path field: absent and the empty string are falsy
PathOr(r, f, dflt) == IF Has(r, f) /\ r[f] # <<"">> THEN r[f] ELSE dflt

\* x.f || dflt for a number field: absent and 0 are falsy
NumOr(r, f, dflt) == IF Has(r, f) /\ r[f] # 0 THEN r[f] ELSE dflt

\* finding.RiskScore || getRiskValue(finding.RiskLevel || finding.risk || finding.severity || 'low')
findingScore(finding) ==
    NumOr(finding, "RiskScore",
          getRiskValue(StrOr(finding, "RiskLevel",
                       StrOr(finding, "risk",
                       StrOr(finding, "severity", "low")))))

\* behavior.RiskScore || getRiskValue(behavior.RiskLevel || 'low')
upperBehaviorScore(behavior) ==
    NumOr(behavior, "RiskScore", getRiskValue(StrOr(behavior, "RiskLevel", "low")))

\* behavior.RiskScore || getRiskValue(behavior.risk || 'low')
lowerBehaviorScore(behavior) ==
    NumOr(behavior, "RiskScore", getRiskValue(StrOr(behavior, "risk", "low")))

calculateRiskScore(findings) ==
    IF IsNull(findings) THEN 0
    ELSE IF IsArray(findings) THEN SumSeq(Map(findings.array, findingScore))
    ELSE IF Has(findings, "Behaviors") THEN SumSeq(Map(findings.Behaviors, upperBehaviorScore))
    ELSE IF Has(findings, "behaviors") THEN SumSeq(Map(findings.behaviors, lowerBehaviorScore))
    ELSE 0

\* src/src/index.js: getRiskValue(finding.risk || finding.severity || 'low')
findingScore_index(finding) ==
    getRiskValue(StrOr(finding, "risk", StrOr(finding, "severity", "low")))

\* src/src/index.js: getRiskValue(behavior.risk || 'low')
behaviorScore_index(behavior) == getRiskValue(StrOr(behavior, "risk", "low"))

calculateRiskScore_index(findings) ==
    IF IsNull(findings) THEN 0
    ELSE IF IsArray(findings) THEN SumSeq(Map(findings.array, findingScore_index))
    ELSE IF Has(findings, "behaviors") THEN SumSeq(Map(findings.behaviors, behaviorScore_index))
    ELSE 0

---------------------------------------------------------------------------
(* ResultNormalizer, src/unnamed/part_003 *)

\* the diff object parseDiffOutput starts from
EmptyDiff ==
    [added |-> <<>>, removed |-> <<>>, changed |-> <<>>,
     riskIncreased |-> FALSE, totalRiskDelta |-> 0, raw |-> NullData]

\* const diffData = parsed.Diff || parsed.diff || parsed
diffDataOf(parsed) ==
    IF Has(parsed, "Diff") THEN parsed.Diff
    ELSE IF Has(parsed, "diff") THEN parsed.diff
    ELSE parsed

\* Object.entries(x.f) when x.f is truthy, no entry otherwise
EntriesOf(x, f) == IF Has(x, f) THEN x[f] ELSE <<>>

\* data.Behaviors || []
BehaviorsOf(data) == IF Has(data, "Behaviors") THEN data.Behaviors ELSE <<>>

IsDiffRemoved(b) == Has(b, "DiffRemoved") /\ b.DiffRemoved
NotDiffRemoved(b) == ~IsDiffRemoved(b)

\* (b.RiskScore || 0)
RiskScoreOrZero(b) == NumOr(b, "RiskScore", 0)

\* addedBehaviors.reduce(...) - removedBehaviors.reduce(...)
netRiskDelta(behaviors) ==
    SumSeq(Map(SelectSeq(behaviors, NotDiffRemoved), RiskScoreOrZero))
    - SumSeq(Map(SelectSeq(behaviors, IsDiffRemoved), RiskScoreOrZero))

\* One iteration of the loop over diffData.Added. acc = [d, threw]: the diff
\* so far and whether an exception has left the try block. data.Path of a
\* null entry throws before the push.
\* addedStep, were the flag left alone by an added file
addedStep_keepsFlag(acc, entry) ==
    IF acc.threw THEN acc
    ELSE IF IsNull(entry.data) THEN [acc EXCEPT !.threw = TRUE]
    ELSE LET data == entry.data
             riskScore == calculateRiskScore(data)
         IN [acc EXCEPT
               !.d.added = Append(@, [file |-> PathOr(data, "Path", entry.key),
                                      findings |-> data,
                                      behaviors |-> BehaviorsOf(data),
                                      riskScore |-> riskScore]),
               !.d.totalRiskDelta = @ + riskScore]

addedStep(acc, entry) ==
    IF acc.threw THEN acc
    ELSE IF IsNull(entry.data) THEN [acc EXCEPT !.threw = TRUE]
    ELSE LET data == entry.data
             riskScore == calculateRiskScore(data)
         IN [acc EXCEPT
               !.d.added = Append(@, [file |-> PathOr(data, "Path", entry.key),
                                      findings |-> data,
                                      behaviors |-> BehaviorsOf(data),
                                      riskScore |-> riskScore]),
               !.d.totalRiskDelta = @ + riskScore,
               !.d.riskIncreased = @ \/ riskScore > 0]

\* removedStep with the flag raised by a removed file, as the loop over the
\* added files does
removedStep_raisesFlag(acc, entry) ==
    IF acc.threw THEN acc
    ELSE IF IsNull(entry.data) THEN [acc EXCEPT !.threw = TRUE]
    ELSE LET data == entry.data
             riskScore == calculateRiskScore(data)
         IN [acc EXCEPT
               !.d.removed = Append(@, [file |-> PathOr(data, "Path", entry.key),
                                        findings |-> data,
                                        behaviors |-> BehaviorsOf(data),
                                        riskScore |-> riskScore]),
               !.d.totalRiskDelta = @ - riskScore,
               !.d.riskIncreased = @ \/ riskScore > 0]

removedStep(acc, entry) ==
    IF acc.threw THEN acc
    ELSE IF IsNull(entry.data) THEN [acc EXCEPT !.threw = TRUE]
    ELSE LET data == entry.data
             riskScore == calculateRiskScore(data)
         IN [acc EXCEPT
               !.d.removed = Append(@, [file |-> PathOr(data, "Path", entry.key),
                                        findings |-> data,
                                        behaviors |-> BehaviorsOf(data),
                                        riskScore |-> riskScore]),
               !.d.totalRiskDelta = @ - riskScore]

\* the object pushed to diff.changed; its path field is data.Path, undefined
\* when the scanner gave none
changedEntry(key, data, behaviors, riskDelta) ==
    LET item == [file |-> PathOr(data, "Path", key),
                 behaviors |-> behaviors,
                 addedBehaviors |-> SelectSeq(behaviors, NotDiffRemoved),
                 removedBehaviors |-> SelectSeq(behaviors, IsDiffRemoved),
                 riskDelta |-> riskDelta]
    IN IF Has(data, "Path")
       THEN [f \in DOMAIN item \cup {"path"} |-> IF f = "path" THEN data.Path ELSE item[f]]
       ELSE item

modifiedStep(acc, entry) ==
    IF acc.threw THEN acc
    ELSE IF IsNull(entry.data) THEN [acc EXCEPT !.threw = TRUE]
    ELSE LET data == entry.data
             behaviors == BehaviorsOf(data)
             riskDelta == netRiskDelta(behaviors)
         IN [acc EXCEPT
               !.d.changed = Append(@, changedEntry(entry.key, data, behaviors, riskDelta)),
               !.d.totalRiskDelta = @ + riskDelta,
               !.d.riskIncreased = @ \/ riskDelta > 0]

RECURSIVE processAdded(_, _)
processAdded(acc, entries) ==
    IF entries = <<>> THEN acc
    ELSE processAdded(addedStep(acc, Head(entries)), Tail(entries))

RECURSIVE processRemoved(_, _)
processRemoved(acc, entries) ==
    IF entries = <<>> THEN acc
    ELSE processRemoved(removedStep(acc, Head(entries)), Tail(entries))

RECURSIVE processModified(_, _)
processModified(acc, entries) ==
    IF entries = <<>> THEN acc
    ELSE processModified(modifiedStep(acc, Head(entries)), Tail(entries))

\* the try block of parseDiffOutput, after JSON.parse succeeded
parseTry(parsed) ==
    LET diffData == diffDataOf(parsed)
        start == [d |-> [EmptyDiff EXCEPT !.raw = [json |-> parsed]], threw |-> FALSE]
        a == processAdded(start, EntriesOf(diffData, "Added"))
        r == processRemoved(a, EntriesOf(diffData, "Removed"))
    IN processModified(r, EntriesOf(diffData, "Modified"))

\* whether parseDiffOutput leaves through its catch block
parseThrows(diffOutput) ==
    diffOutput.kind = "text" \/ parseTry(diffOutput.value).threw

parseDiffOutput(diffOutput) ==
    IF diffOutput.kind = "text"
    THEN [EmptyDiff EXCEPT !.raw = [text |-> diffOutput]]
    ELSE LET res == parseTry(diffOutput.value)
         IN IF res.threw THEN [res.d EXCEPT !.raw = [text |-> diffOutput]]
            ELSE res.d

---------------------------------------------------------------------------
(* ResultNormalizer, src/src/index.js *)

\* calculateRiskScore(data.previous): !findings returns 0 for an absent field
riskOfField_index(data, f) ==
    IF Has(data, f) THEN calculateRiskScore_index(data[f]) ELSE 0

addedStep_index(acc, entry) ==
    [acc EXCEPT
       !.d.added = Append(@, [file |-> entry.key,
                              findings |-> entry.data,
                              riskScore |-> calculateRiskScore_index(entry.data)])]

removedStep_index(acc, entry) ==
    [acc EXCEPT
       !.d.removed = Append(@, [file |-> entry.key,
                                findings |-> entry.data,
                                riskScore |-> calculateRiskScore_index(entry.data)])]

\* data.previous of a null entry throws
modifiedStep_index(acc, entry) ==
    IF acc.threw THEN acc
    ELSE IF IsNull(entry.data) THEN [acc EXCEPT !.threw = TRUE]
    ELSE LET data == entry.data
             baseRisk == riskOfField_index(data, "previous")
             headRisk == riskOfField_index(data, "current")
             riskDelta == headRisk - baseRisk
         IN [acc EXCEPT
               !.d.changed = Append(@, [file |-> entry.key,
                                        baseFindings |-> EntriesOf(data, "previous"),
                                        headFindings |-> EntriesOf(data, "current"),
                                        riskDelta |-> riskDelta,
                                        baseRisk |-> baseRisk,
                                        headRisk |-> headRisk]),
               !.d.totalRiskDelta = @ + riskDelta,
               !.d.riskIncreased = @ \/ riskDelta > 0]

RECURSIVE processAdded_index(_, _)
processAdded_index(acc, entries) ==
    IF entries = <<>> THEN acc
    ELSE processAdded_index(addedStep_index(acc, Head(entries)), Tail(entries))

RECURSIVE processRemoved_index(_, _)
processRemoved_index(acc, entries) ==
    IF entries = <<>> THEN acc
    ELSE processRemoved_index(removedStep_index(acc, Head(entries)), Tail(entries))

RECURSIVE processModified_index(_, _)
processModified_index(acc, entries) ==
    IF entries = <<>> THEN acc
    ELSE processModified_index(modifiedStep_index(acc, Head(entries)), Tail(entries))

parseTry_index(parsed) ==
    LET start == [d |-> [EmptyDiff EXCEPT !.raw = [json |-> parsed]], threw |-> FALSE]
        a == processAdded_index(start, EntriesOf(parsed, "added"))
        r == processRemoved_index(a, EntriesOf(parsed, "removed"))
    IN processModified_index(r, EntriesOf(parsed, "modified"))

parseDiffOutput_index(diffOutput) ==
    IF diffOutput.kind = "text"
    THEN [EmptyDiff EXCEPT !.raw = [text |-> diffOutput]]
    ELSE LET res == parseTry_index(diffOutput.value)
         IN IF res.threw THEN [res.d EXCEPT !.raw = [text |-> diffOutput]]
            ELSE res.d

---------------------------------------------------------------------------
(* Presenter: generateDiffSummary. A text is the sequence of its lines; a    *)
(* line is a record holding its fixed wording (t) and the values printed in  *)
(* it.                                                                        *)

RECURSIVE Flatten(_)
Flatten(ss) == IF ss = <<>> THEN <<>> ELSE Head(ss) \o Flatten(Tail(ss))

Min(a, b) == IF a < b THEN a ELSE b

\* Array.prototype.slice(0, n)
Slice(s, n) == SubSeq(s, 1, Min(Len(s), n))

\* InsertByKey placing an element before the elements of equal key
RECURSIVE InsertByKey_unstable(_, _)
InsertByKey_unstable(sorted, x) ==
    IF sorted = <<>> THEN <<x>>
    ELSE IF Head(sorted).k > x.k THEN <<Head(sorted)>> \o InsertByKey_unstable(Tail(sorted), x)
    ELSE <<x>> \o sorted

\* Array.prototype.sort with the comparator (a, b) => key(b) - key(a): a
\* stable sort, larger keys first. ps holds [k, v] pairs.
RECURSIVE InsertByKey(_, _)
InsertByKey(sorted, x) ==
    IF sorted = <<>> THEN <<x>>
    ELSE IF Head(sorted).k >= x.k THEN <<Head(sorted)>> \o InsertByKey(Tail(sorted), x)
    ELSE <<x>> \o sorted

RECURSIVE SortPairs(_, _)
SortPairs(acc, ps) ==
    IF ps = <<>> THEN acc ELSE SortPairs(InsertByKey(acc, Head(ps)), Tail(ps))

sortDescending(s, Key(_)) ==
    LET ps == [i \in 1..Len(s) |-> [k |-> Key(s[i]), v |-> s[i]]]
        sorted == SortPairs(<<>>, ps)
    IN [i \in 1..Len(sorted) |-> sorted[i].v]

\* file.replace(/^\/[^/]+\//, ''): drops "/segment/" at the start of a path
stripFirstSegment(file) ==
    IF Len(file) >= 3 /\ file[1] = "" /\ file[2] # ""
    THEN SubSeq(file, 3, Len(file))
    ELSE file

\* String.prototype.toUpperCase over the risk labels of the model
toUpperCase(s) ==
    CASE s \in {"CRITICAL", "Critical", "critical"} -> "CRITICAL"
      [] s \in {"HIGH", "High", "high"} -> "HIGH"
      [] s \in {"MEDIUM", "Medium", "medium"} -> "MEDIUM"
      [] s \in {"LOW", "Low", "low"} -> "LOW"
      [] s \in {"UNKNOWN", "unknown"} -> "UNKNOWN"
      [] OTHER -> s

getRiskEmoji(behavior) ==
    IF ~(Has(behavior, "RiskLevel") /\ behavior.RiskLevel # "") THEN "white"
    ELSE CASE toUpperCase(behavior.RiskLevel) = "CRITICAL" -> "red"
           [] toUpperCase(behavior.RiskLevel) = "HIGH" -> "orange"
           [] toUpperCase(behavior.RiskLevel) = "MEDIUM" -> "yellow"
           [] toUpperCase(behavior.RiskLevel) = "LOW" -> "green"
           [] OTHER -> "white"

\* x.f in a template literal: an absent field prints as undefined
Printed(r, f) == IF Has(r, f) THEN r[f] ELSE "undefined"

\* the behaviors shown per added or removed file
BehaviorLimit == 10

Text(t) == [t |-> t]

\* behavior.MatchStrings && behavior.MatchStrings.length > 0
HasMatch(behavior) == Has(behavior, "MatchStrings") /\ Len(behavior.MatchStrings) > 0

matchLines(behavior) ==
    IF HasMatch(behavior)
    THEN << [t |-> "  - Match: $1", match |-> behavior.MatchStrings[1]] >>
    ELSE <<>>

\* if (behavior.RuleURL): the rule named behavior.RuleName || behavior.ID
ruleLines(behavior) ==
    IF Has(behavior, "RuleURL") /\ behavior.RuleURL # ""
    THEN << [t |-> "  - Rule: [$1]($2)",
             rule |-> StrOr(behavior, "RuleName", Printed(behavior, "ID")),
             url |-> behavior.RuleURL] >>
    ELSE <<>>

boldBehaviorLine(behavior) ==
    [t |-> "- $1 **$2** [$3]", emoji |-> getRiskEmoji(behavior),
     description |-> Printed(behavior, "Description"),
     level |-> Printed(behavior, "RiskLevel")]

struckBehaviorLine(behavior) ==
    [t |-> "- $1 ~~$2~~ [$3]", emoji |-> getRiskEmoji(behavior),
     description |-> Printed(behavior, "Description"),
     level |-> Printed(behavior, "RiskLevel")]

addedBehaviorLines(behavior) ==
    <<boldBehaviorLine(behavior)>> \o matchLines(behavior) \o ruleLines(behavior)

removedBehaviorLines(behavior) ==
    <<struckBehaviorLine(behavior)>> \o matchLines(behavior)

detectedBehaviorLines(behavior) ==
    <<boldBehaviorLine(behavior)>> \o matchLines(behavior)

goneBehaviorLines(behavior) == <<struckBehaviorLine(behavior)>>

modifiedFileLines(item) ==
    << [t |-> "#### $1", file |-> stripFirstSegment(item.file)] >>
    \o (IF Len(item.addedBehaviors) > 0
        THEN <<Text(""), Text("**Added behaviors:**")>>
             \o Flatten(Map(sortDescending(item.addedBehaviors, RiskScoreOrZero),
                            addedBehaviorLines))
        ELSE <<>>)
    \o (IF Len(item.removedBehaviors) > 0
        THEN <<Text(""), Text("**Removed behaviors:**")>>
             \o Flatten(Map(sortDescending(item.removedBehaviors, RiskScoreOrZero),
                            removedBehaviorLines))
        ELSE <<>>)
    \o <<Text("")>>

addedFileLines(item) ==
    LET sortedBehaviors == sortDescending(item.behaviors, RiskScoreOrZero)
    IN << [t |-> "#### $1", file |-> stripFirstSegment(item.file)],
          [t |-> "**Risk Score: $1**", n |-> item.riskScore],
          Text(""),
          Text("**Behaviors detected:**") >>
       \o Flatten(Map(Slice(sortedBehaviors, BehaviorLimit), detectedBehaviorLines))
       \o (IF Len(sortedBehaviors) > BehaviorLimit
           THEN << [t |-> "- ... and $1 more behaviors",
                    n |-> Len(sortedBehaviors) - BehaviorLimit] >>
           ELSE <<>>)
       \o <<Text("")>>

removedFileLines(item) ==
    LET sortedBehaviors == sortDescending(item.behaviors, RiskScoreOrZero)
    IN << [t |-> "#### ~~$1~~", file |-> stripFirstSegment(item.file)],
          [t |-> "**Previous Risk Score: $1**", n |-> item.riskScore],
          Text(""),
          Text("**Behaviors removed:**") >>
       \o Flatten(Map(Slice(sortedBehaviors, BehaviorLimit), goneBehaviorLines))
       \o (IF Len(sortedBehaviors) > BehaviorLimit
           THEN << [t |-> "- ... and $1 more behaviors removed",
                    n |-> Len(sortedBehaviors) - BehaviorLimit] >>
           ELSE <<>>)
       \o <<Text("")>>

itemRiskDelta(item) == item.riskDelta
itemRiskScore(item) == item.riskScore

\* the heading line of the summary
summaryTitle(d) ==
    IF d.riskIncreased
    THEN [t |-> "## Security Risk Increased (+$1 points)", n |-> d.totalRiskDelta]
    ELSE IF d.totalRiskDelta < 0
    THEN [t |-> "## Security Risk Decreased ($1 points)", n |-> d.totalRiskDelta]
    ELSE Text("## Security Behaviors Changed (no net risk change)")

NoChangesSummary ==
    << Text("## No security-relevant changes detected"),
       Text(""),
       Text("All files passed malcontent analysis without any behavioral differences.") >>

generateDiffSummary(d) ==
    IF d.totalRiskDelta = 0 /\ Len(d.added) = 0 /\ Len(d.removed) = 0 /\ Len(d.changed) = 0
    THEN NoChangesSummary
    ELSE <<summaryTitle(d), Text("")>>
         \o (IF Len(d.changed) > 0
             THEN <<Text("### Modified Files"), Text("")>>
                  \o Flatten(Map(sortDescending(d.changed, itemRiskDelta), modifiedFileLines))
             ELSE <<>>)
         \o (IF Len(d.added) > 0
             THEN <<Text("### New Files with Security Findings"), Text("")>>
                  \o Flatten(Map(sortDescending(d.added, itemRiskScore), addedFileLines))
                  \o <<Text("")>>
             ELSE <<>>)
         \o (IF Len(d.removed) > 0
             THEN <<Text("### Removed Files"), Text("")>>
                  \o Flatten(Map(sortDescending(d.removed, itemRiskScore), removedFileLines))
                  \o <<Text("")>>
             ELSE <<>>)

---------------------------------------------------------------------------
(* Presenter: generateDiffSummary, src/src/index.js. The lines are joined    *)
(* with a backslash and an n, so the summary is one line of several parts.   *)

\* the files listed per bucket
FileLimit == 5

fileScoreLine_index(item) ==
    [t |-> "- $1 (risk score: $2)", file |-> item.file, n |-> item.riskScore]

\* item.riskDelta > 0 ? '+' + item.riskDelta : item.riskDelta
fileDeltaLine_index(item) ==
    [t |-> "- $1 (risk delta: $2)", file |-> item.file,
     plus |-> item.riskDelta > 0, n |-> item.riskDelta]

bucketLines_index(heading, items, Line(_)) ==
    IF Len(items) > 0
    THEN << [t |-> heading, n |-> Len(items)] >>
         \o Map(Slice(items, FileLimit), Line)
         \o (IF Len(items) > FileLimit
             THEN << [t |-> "- ... and $1 more", n |-> Len(items) - FileLimit] >>
             ELSE <<>>)
    ELSE <<>>

generateDiffSummary_index(d) ==
    IF d.totalRiskDelta = 0 /\ Len(d.added) = 0 /\ Len(d.removed) = 0 /\ Len(d.changed) = 0
    THEN << [t |-> "joined", parts |-> << Text("## Malcontent Analysis Summary"),
                                         Text("No security-relevant changes detected") >>] >>
    ELSE << [t |-> "joined", parts |->
              << Text("## Malcontent Analysis Summary") >>
              \o (IF d.riskIncreased
                  THEN << [t |-> "**Risk Score Increased by $1**", n |-> d.totalRiskDelta] >>
                  ELSE IF d.totalRiskDelta < 0
                  THEN << [t |-> "Risk Score Decreased by $1", n |-> -d.totalRiskDelta] >>
                  ELSE <<>>)
              \o bucketLines_index("### New Files with Findings ($1)", d.added, fileScoreLine_index)
              \o bucketLines_index("### Removed Files with Findings ($1)", d.removed, fileScoreLine_index)
              \o bucketLines_index("### Files with Changed Findings ($1)", d.changed, fileDeltaLine_index)] >>

---------------------------------------------------------------------------
(* Presenter: generateSarifReport *)

\* getSarifLevel comparing the level as it is written
getSarifLevel_caseSensitive(behavior) ==
    IF ~(Has(behavior, "RiskLevel") /\ behavior.RiskLevel # "") THEN "note"
    ELSE CASE behavior.RiskLevel \in {"CRITICAL", "HIGH"} -> "error"
           [] behavior.RiskLevel = "MEDIUM" -> "warning"
           [] OTHER -> "note"

\* getSarifLevel(behavior.RiskLevel)
getSarifLevel(behavior) ==
    IF ~(Has(behavior, "RiskLevel") /\ behavior.RiskLevel # "") THEN "note"
    ELSE CASE toUpperCase(behavior.RiskLevel) \in {"CRITICAL", "HIGH"} -> "error"
           [] toUpperCase(behavior.RiskLevel) = "MEDIUM" -> "warning"
           [] toUpperCase(behavior.RiskLevel) = "LOW" -> "note"
           [] OTHER -> "note"

\* getSeverityScore(behavior.RiskLevel).toString()
getSeverityScore(behavior) ==
    IF ~(Has(behavior, "RiskLevel") /\ behavior.RiskLevel # "") THEN "5"
    ELSE CASE toUpperCase(behavior.RiskLevel) = "CRITICAL" -> "9"
           [] toUpperCase(behavior.RiskLevel) = "HIGH" -> "7"
           [] toUpperCase(behavior.RiskLevel) = "MEDIUM" -> "5"
           [] toUpperCase(behavior.RiskLevel) = "LOW" -> "3"
           [] OTHER -> "5"

\* Description?.replace(/\s+/g, '-').toLowerCase() over the descriptions of
\* the model; an absent description prints as undefined
slugOf(behavior) ==
    IF ~Has(behavior, "Description") THEN "undefined"
    ELSE CASE behavior.Description = "Runs Exec" -> "runs-exec"
           [] behavior.Description = "runs  exec" -> "runs-exec"
           [] OTHER -> behavior.Description

\* behavior.RuleName || the synthetic id made of the prefix and the slug
ruleIdOf(behavior) ==
    IF Has(behavior, "RuleName") /\ behavior.RuleName # ""
    THEN [name |-> behavior.RuleName]
    ELSE [prefix |-> "malcontent-", slug |-> slugOf(behavior)]

ruleOf(behavior) ==
    [id |-> ruleIdOf(behavior),
     name |-> StrOr(behavior, "Description", "Unknown behavior"),
     help |-> StrOr(behavior, "RuleLink", "https://github.com/chainguard-dev/malcontent"),
     severity |-> getSeverityScore(behavior)]

\* the result of one behavior at the location uri
resultOf(behavior, uri) ==
    LET base == [ruleId |-> ruleIdOf(behavior),
                 level |-> getSarifLevel(behavior),
                 text |-> StrOr(behavior, "Description", "Security behavior detected"),
                 uri |-> uri]
    IN IF HasMatch(behavior)
       THEN [f \in DOMAIN base \cup {"tags", "match"} |->
               IF f = "tags" THEN behavior.MatchStrings
               ELSE IF f = "match" THEN behavior.MatchStrings[1]
               ELSE base[f]]
       ELSE base

\* the behaviors the report covers, each with the uri of its result: all
\* behaviors of the added files, then the added behaviors of the modified
\* files (item.path || the stripped item.file)
reportedOfAdded(item) ==
    [i \in 1..Len(item.behaviors) |->
        [behavior |-> item.behaviors[i], uri |-> stripFirstSegment(item.file)]]

\* reportedOfChanged over all the behaviors of the file
reportedOfChanged_allBehaviors(item) ==
    [i \in 1..Len(item.behaviors) |->
        [behavior |-> item.behaviors[i],
         uri |-> PathOr(item, "path", stripFirstSegment(item.file))]]

reportedOfChanged(item) ==
    [i \in 1..Len(item.addedBehaviors) |->
        [behavior |-> item.addedBehaviors[i],
         uri |-> PathOr(item, "path", stripFirstSegment(item.file))]]

reportedBehaviors(d) ==
    Flatten(Map(d.added, reportedOfAdded)) \o Flatten(Map(d.changed, reportedOfChanged))

\* collectRules with a rule for every behavior
collectRules_everyBehavior(rules, reported) ==
    rules \o [i \in 1..Len(reported) |-> ruleOf(reported[i].behavior)]

\* rulesMap: one rule per id, built from the first behavior seen with it
RECURSIVE collectRules(_, _)
collectRules(rules, reported) ==
    IF reported = <<>> THEN rules
    ELSE LET behavior == Head(reported).behavior
         IN IF \E i \in 1..Len(rules) : rules[i].id = ruleIdOf(behavior)
            THEN collectRules(rules, Tail(reported))
            ELSE collectRules(Append(rules, ruleOf(behavior)), Tail(reported))

resultOfReported(r) == resultOf(r.behavior, r.uri)

generateSarifReport(d) ==
    [version |-> "2.1.0",
     rules |-> collectRules(<<>>, reportedBehaviors(d)),
     results |-> Map(reportedBehaviors(d), resultOfReported)]

---------------------------------------------------------------------------
(* CommentReconciler: the bodies postPRComment writes *)

commentMarker == "<!-- malcontent-action-comment -->"

\* String.prototype.includes on a body: the marker is a line of the body or
\* is quoted inside one
includes(body, marker) ==
    \E i \in 1..Len(body) :
        \/ body[i].t = marker
        \/ Has(body[i], "quotes") /\ body[i].quotes = marker

\* existingComment, were the last match taken
existingComment_last(cs) ==
    IF \E i \in 1..Len(cs) : includes(cs[i].body, commentMarker)
    THEN CHOOSE i \in 1..Len(cs) :
            /\ includes(cs[i].body, commentMarker)
            /\ \A j \in (i + 1)..Len(cs) : ~includes(cs[j].body, commentMarker)
    ELSE 0

\* comments.find(...): the index of the first comment whose body includes
\* the marker, 0 for undefined
existingComment(cs) ==
    IF \E i \in 1..Len(cs) : includes(cs[i].body, commentMarker)
    THEN CHOOSE i \in 1..Len(cs) :
            /\ includes(cs[i].body, commentMarker)
            /\ \A j \in 1..(i - 1) : ~includes(cs[j].body, commentMarker)
    ELSE 0

hasFindings(d) == Len(d.added) > 0 \/ Len(d.removed) > 0 \/ Len(d.changed) > 0

resolvedBody ==
    << Text(commentMarker),
       Text("## Malcontent Analysis Summary"),
       Text(""),
       Text("Previously detected security issues have been resolved."),
       Text(""),
       Text("_Check the comment edit history for details about the previous findings._") >>

\* the rows of the summary table, one per file of the three buckets
changedRow(item) ==
    [file |-> item.file, status |-> "Modified", riskChange |-> item.riskDelta,
     added |-> Len(item.addedBehaviors), removed |-> Len(item.removedBehaviors)]

addedRow(item) ==
    [file |-> item.file, status |-> "Added", riskChange |-> item.riskScore,
     behaviorCount |-> Len(item.behaviors)]

removedRow(item) ==
    [file |-> item.file, status |-> "Removed", riskChange |-> -item.riskScore,
     behaviorCount |-> Len(item.behaviors)]

rowRiskChange(row) == row.riskChange

\* item.riskChange > 0 ? '+' + item.riskChange : item.riskChange.toString()
tableLine(row) ==
    [t |-> "| $1 | $2 | $3 | $4 |",
     row |-> [f \in DOMAIN row |->
                IF f = "file" THEN stripFirstSegment(row.file) ELSE row[f]],
     plus |-> row.riskChange > 0]

summaryTable(d) ==
    IF Len(d.changed) + Len(d.added) + Len(d.removed) > 1
    THEN << Text(""),
            Text("<details><summary>Summary Table</summary>"),
            Text(""),
            Text("| File | Status | Risk Change | Behaviors |"),
            Text("|------|--------|-------------|----------|") >>
         \o Map(sortDescending(Map(d.changed, changedRow) \o Map(d.added, addedRow)
                               \o Map(d.removed, removedRow), rowRiskChange),
                tableLine)
         \o << Text(""), Text("</details>") >>
    ELSE <<>>

\* the characters kept of the raw JSON report
RawJsonLimit == 50000

\* JSON.stringify(diff.raw || diff, null, 2).substring(0, 50000)
rawJsonBlock(d) ==
    << Text(""),
       Text("<details><summary>Raw JSON Report</summary>"),
       Text(""),
       Text("~~~json"),
       [t |-> "JSON", value |-> IF IsNull(d.raw) THEN [json |-> d] ELSE d.raw,
        limit |-> RawJsonLimit],
       Text("~~~"),
       Text("</details>") >>

\* findingsBody with the marker after the summary
findingsBody_markerLast(summary, d) ==
    summary \o <<Text(commentMarker)>> \o summaryTable(d) \o rawJsonBlock(d)

findingsBody(summary, d) ==
    <<Text(commentMarker)>> \o summary \o summaryTable(d) \o rawJsonBlock(d)

\* src/src/index.js: the characters kept of the detailed report
DetailLimit == 60000

\* src/src/index.js: JSON.stringify(diff, null, 2).substring(0, 60000)
findingsBody_index(summary, d) ==
    <<Text(commentMarker)>> \o summary
    \o << Text(""),
          Text("<details><summary>View detailed report</summary>"),
          Text(""),
          Text("~~~json"),
          [t |-> "JSON", value |-> [json |-> d], limit |-> DetailLimit],
          Text("~~~"),
          Text("</details>") >>

---------------------------------------------------------------------------
(* Scanner payloads of the model *)

Buckets == 1..3

\* behaviors as the scanner reports them; a field the scanner left out is
\* absent from the record
PlainBehaviors ==
    << [Description |-> "exec", RiskScore |-> 8, RiskLevel |-> "CRITICAL"],
       [Description |-> "zero", RiskScore |-> 0, RiskLevel |-> "HIGH"],
       [Description |-> "level", RiskLevel |-> "medium"],
       [Description |-> "bare"] >>

MarkRemoved(b) == [f \in DOMAIN b \cup {"DiffRemoved"} |->
                     IF f = "DiffRemoved" THEN TRUE ELSE b[f]]

\* behaviors the scanner marks as gone from a modified file
GoneBehaviors ==
    << MarkRemoved([Description |-> "exec", RiskScore |-> 8, RiskLevel |-> "CRITICAL"]),
       MarkRemoved([Description |-> "level", RiskLevel |-> "medium"]) >>

\* the DiffRemoved marker occurs in the behaviors of modified files only
BehaviorsIn(bucket) ==
    IF bucket = 3 THEN PlainBehaviors \o GoneBehaviors ELSE PlainBehaviors

\* The outline of a payload of n files: the bucket of each file (buckets in
\* ascending order) and the number of its behaviors, NullFile for a file
\* whose data is the JSON value null; at most MaxBehaviors behaviors in all
NullFile == 0 - 1

HeldBy(count) == IF count = NullFile THEN 0 ELSE count

RECURSIVE HeldBefore(_, _)
HeldBefore(counts, i) ==
    IF i <= 1 THEN 0 ELSE HeldBefore(counts, i - 1) + HeldBy(counts[i - 1])

IsOutline(n, buckets, counts) ==
    /\ \A i \in 1..(n - 1) : buckets[i] <= buckets[i + 1]
    /\ HeldBefore(counts, n + 1) <= MaxBehaviors

\* fill chooses each behavior by its position in the behaviors of its bucket
Fits(n, buckets, counts, fill) ==
    \A i \in 1..n : \A j \in 1..HeldBy(counts[i]) :
        fill[HeldBefore(counts, i) + j] <= Len(BehaviorsIn(buckets[i]))

ContentOf(n, buckets, counts, fill) ==
    [i \in 1..n |->
        IF counts[i] = NullFile THEN [bucket |-> buckets[i], null |-> TRUE]
        ELSE [bucket |-> buckets[i],
              Behaviors |-> [j \in 1..counts[i] |->
                               BehaviorsIn(buckets[i])[fill[HeldBefore(counts, i) + j]]]]]

\* the keys of the scanner's file entries, by position in their bucket. A
\* path is the sequence of its segments: "/head/a.js" is <<"", "head", "a.js">>
Keys == << <<"", "head", "a.js">>,
          <<"", "tmp", "head", "b.js">>,
          <<"c.js">>,
          <<"", "d.js">> >>

InBucket(c, b) == SelectSeq(c, LAMBDA file : file.bucket = b)

\* the current shape: { Diff: { Added, Removed, Modified } }, Behaviors
CurrentData(file) ==
    IF Has(file, "null") THEN NullData ELSE [Behaviors |-> file.Behaviors]

CurrentEntries(c, b) ==
    [i \in 1..Len(InBucket(c, b)) |->
        [key |-> Keys[i], data |-> CurrentData(InBucket(c, b)[i])]]

CurrentShape(c) ==
    [kind |-> "json",
     value |-> [Diff |-> [Added |-> CurrentEntries(c, 1),
                          Removed |-> CurrentEntries(c, 2),
                          Modified |-> CurrentEntries(c, 3)]]]

\* the legacy shape: { added, removed, modified }, behaviors with a risk
\* label; a modified file holds its previous and its current findings
LegacyBehavior(b) ==
    IF Has(b, "RiskLevel") THEN [description |-> b.Description, risk |-> b.RiskLevel]
    ELSE [description |-> b.Description]

LegacyFindings(bl) == [behaviors |-> Map(bl, LegacyBehavior)]

LegacyData(file, b) ==
    IF Has(file, "null") THEN NullData
    ELSE IF b = 3
         THEN [previous |-> LegacyFindings(SelectSeq(file.Behaviors, IsDiffRemoved)),
               current |-> LegacyFindings(SelectSeq(file.Behaviors, NotDiffRemoved))]
         ELSE LegacyFindings(file.Behaviors)

LegacyEntries(c, b) ==
    [i \in 1..Len(InBucket(c, b)) |->
        [key |-> Keys[i], data |-> LegacyData(InBucket(c, b)[i], b)]]

LegacyShape(c) ==
    [kind |-> "json",
     value |-> [added |-> LegacyEntries(c, 1),
                removed |-> LegacyEntries(c, 2),
                modified |-> LegacyEntries(c, 3)]]

\* output that JSON.parse rejects
TextPayload == [kind |-> "text"]

\* the scanner's output: text, or one of the two shapes of some content
IsPayload(p) ==
    \/ p = TextPayload
    \/ \E n \in 0..MaxFiles :
         \E buckets \in [1..n -> Buckets] :
           \E counts \in [1..n -> NullFile..MaxBehaviors] :
             /\ IsOutline(n, buckets, counts)
             /\ \E fill \in [1..HeldBefore(counts, n + 1) -> 1..Len(BehaviorsIn(3))] :
                  /\ Fits(n, buckets, counts, fill)
                  /\ p \in {CurrentShape(ContentOf(n, buckets, counts, fill)),
                            LegacyShape(ContentOf(n, buckets, counts, fill))}

---------------------------------------------------------------------------
(* The normalizer on its own: parseDiffOutput applied to a payload *)

NoOutputs == [set |-> FALSE]

\* no second run on the pull request
NoOther == [pc |-> "none"]

\* the composite action is not the one running
NotDetecting == [status |-> "none"]

IdleRun ==
    /\ diffSummary = <<>>
    /\ isPullRequest = FALSE
    /\ commentOnPR = FALSE
    /\ failOnIncrease = FALSE
    /\ fsFiles = {}
    /\ outputs = NoOutputs
    /\ stepSummary = FALSE
    /\ failed = "none"
    /\ thread = <<>>
    /\ comments = <<>>
    /\ calls = <<>>
    /\ other = NoOther
    /\ detect = NotDetecting

InitParse ==
    /\ version = "part_003"
    /\ pc = "input"
    /\ IsPayload(payload)
    /\ diff = EmptyDiff
    /\ IdleRun

InitParseBoth ==
    /\ version \in {"part_003", "index_js"}
    /\ pc = "input"
    /\ IsPayload(payload)
    /\ diff = EmptyDiff
    /\ IdleRun

parseWith(v, diffOutput) ==
    IF v = "part_003" THEN parseDiffOutput(diffOutput)
    ELSE parseDiffOutput_index(diffOutput)

Normalize ==
    /\ pc = "input"
    /\ diff' = parseWith(version, payload)
    /\ pc' = "parsed"
    /\ UNCHANGED <<detect, other, version, payload, diffSummary, isPullRequest, commentOnPR,
                   failOnIncrease, fsFiles, outputs, stepSummary, failed,
                   thread, comments, calls>>

NextParse == Normalize

SpecParse == InitParse /\ [][NextParse]_vars

SpecParseBoth == InitParseBoth /\ [][NextParse]_vars

---------------------------------------------------------------------------
(* run(): one run of the action, from the scanner's output to the end.     *)
(* index.js is modelled in its default mode, diff.                         *)

\* the scanner was not run: no file was copied to either directory
NoFilesPayload == [kind |-> "nofiles"]

\* a run's file holds at most one behavior
RunFiles ==
    UNION { { [bucket |-> b, Behaviors |-> bl] :
                bl \in {<<>>, << PlainBehaviors[1] >>, << PlainBehaviors[3] >>}
                       \cup (IF b = 3 THEN {<< GoneBehaviors[1] >>, << GoneBehaviors[2] >>}
                             ELSE {}) }
            : b \in Buckets }

\* and a run's payload at most MaxFiles files, one of each bucket
RunContents ==
    UNION { { c \in [1..n -> RunFiles] :
                \A i \in 1..(n - 1) : c[i].bucket < c[i + 1].bucket }
            : n \in 0..MaxFiles }

\* each generation of the entry file with the payload shape it reads
RunPayloads(v) ==
    {TextPayload, NoFilesPayload}
    \cup (IF v = "part_003" THEN {CurrentShape(c) : c \in RunContents}
          ELSE {LegacyShape(c) : c \in RunContents})

\* comment bodies found on the pull request before the run
ThreadBodies ==
    { << Text("LGTM") >>,
      << Text("What is this?"), [t |-> "> quoted line", quotes |-> commentMarker] >>,
      << Text(commentMarker), [t |-> "## Security Risk Increased (+$1 points)", n |-> 8] >>,
      resolvedBody }

CommentId(i) == 100 + 7 * i

Threads ==
    UNION { { [i \in 1..n |-> [id |-> CommentId(i), body |-> bs[i]]] :
                bs \in [1..n -> ThreadBodies] }
            : n \in 0..MaxComments }

RECURSIVE MaxId(_)
MaxId(t) ==
    IF t = <<>> THEN 0
    ELSE IF Head(t).id > MaxId(Tail(t)) THEN Head(t).id ELSE MaxId(Tail(t))

\* octokit.rest.issues.createComment: a new comment at the end of the thread
createComment(t, body) == Append(t, [id |-> MaxId(t) + 1, body |-> body])

\* octokit.rest.issues.updateComment: the body of the comment comment_id
updateComment(t, comment_id, body) ==
    [i \in 1..Len(t) |-> IF t[i].id = comment_id THEN [t[i] EXCEPT !.body = body] ELSE t[i]]

InitRun(v) ==
    /\ version = v
    /\ pc = "start"
    /\ payload \in RunPayloads(v)
    /\ diff = EmptyDiff
    /\ diffSummary = <<>>
    /\ isPullRequest \in BOOLEAN
    /\ commentOnPR \in BOOLEAN
    /\ failOnIncrease \in BOOLEAN
    /\ fsFiles = {}
    /\ outputs = NoOutputs
    /\ stepSummary = FALSE
    /\ failed = "none"
    /\ thread \in (IF isPullRequest THEN Threads ELSE {<<>>})
    /\ comments = <<>>
    /\ calls = <<>>
    /\ other = NoOther
    /\ detect = NotDetecting

Init == InitRun("part_003")

InitBoth == \E v \in {"part_003", "index_js"} : InitRun(v)

summaryWith(v, d) ==
    IF v = "part_003" THEN generateDiffSummary(d) ELSE generateDiffSummary_index(d)

bodyWith(v, summary, d) ==
    IF v = "part_003" THEN findingsBody(summary, d) ELSE findingsBody_index(summary, d)

\* the diff of a run: the fixed empty diff when no file was copied, the
\* parsed scanner output otherwise
diffOfRun(v, diffOutput) ==
    IF diffOutput.kind = "nofiles" THEN [EmptyDiff EXCEPT !.raw = [json |-> <<>>]]
    ELSE parseWith(v, diffOutput)

\* ParseDiff, were the buckets sorted in place for the summary
ParseDiff_sortsInPlace ==
    /\ pc = "start"
    /\ LET d == diffOfRun(version, payload)
       IN diff' = [d EXCEPT !.changed = sortDescending(d.changed, itemRiskDelta),
                            !.added = sortDescending(d.added, itemRiskScore),
                            !.removed = sortDescending(d.removed, itemRiskScore)]
    /\ diffSummary' = summaryWith(version, diff')
    /\ pc' = "report"
    /\ UNCHANGED <<detect, other, version, payload, isPullRequest, commentOnPR, failOnIncrease,
                   fsFiles, outputs, stepSummary, failed, thread, comments, calls>>

ParseDiff ==
    /\ pc = "start"
    /\ diff' = diffOfRun(version, payload)
    /\ diffSummary' = summaryWith(version, diff')
    /\ pc' = "report"
    /\ UNCHANGED <<detect, other, version, payload, isPullRequest, commentOnPR, failOnIncrease,
                   fsFiles, outputs, stepSummary, failed, thread, comments, calls>>

reportPath == "malcontent-diff-report.json"
sarifPath == "malcontent-diff.sarif"

\* fs.writeFile: the file holds the content, whatever it held before
writeFile(files, path, content) ==
    {f \in files : f.path # path} \cup {[path |-> path, content |-> content]}

WriteReport ==
    /\ pc = "report"
    /\ fsFiles' = writeFile(fsFiles, reportPath, [json |-> diff])
    /\ pc' = IF version = "part_003" THEN "sarif" ELSE "outputs"
    /\ UNCHANGED <<detect, other, version, payload, diff, diffSummary, isPullRequest, commentOnPR,
                   failOnIncrease, outputs, stepSummary, failed, thread, comments, calls>>

\* WriteSarif, were the SARIF report left unwritten
WriteSarif_skipped ==
    /\ pc = "sarif"
    /\ pc' = "outputs"
    /\ UNCHANGED <<detect, other, version, payload, diff, diffSummary, isPullRequest, commentOnPR,
                   failOnIncrease, fsFiles, outputs, stepSummary, failed, thread,
                   comments, calls>>

WriteSarif ==
    /\ pc = "sarif"
    /\ fsFiles' = writeFile(fsFiles, sarifPath, [sarif |-> generateSarifReport(diff)])
    /\ pc' = "outputs"
    /\ UNCHANGED <<detect, other, version, payload, diff, diffSummary, isPullRequest, commentOnPR,
                   failOnIncrease, outputs, stepSummary, failed, thread, comments, calls>>

\* the five core.setOutput calls; index.js sets neither risk-delta nor
\* sarif-file. diff.totalRiskDelta || 0 is diff.totalRiskDelta.
outputsOf(v, summary, d) ==
    IF v = "part_003"
    THEN [set |-> TRUE, diffSummary |-> summary, riskIncreased |-> d.riskIncreased,
          riskDelta |-> d.totalRiskDelta, reportFile |-> reportPath, sarifFile |-> sarifPath]
    ELSE [set |-> TRUE, diffSummary |-> summary, riskIncreased |-> d.riskIncreased,
          reportFile |-> reportPath]

\* SetOutputs, were the comment posted whenever comment-on-pr is set
SetOutputs_commentsAlways ==
    /\ pc = "outputs"
    /\ outputs' = outputsOf(version, diffSummary, diff)
    /\ pc' = IF commentOnPR THEN "list"
             ELSE IF ~isPullRequest THEN "summary"
             ELSE "failcheck"
    /\ UNCHANGED <<detect, other, version, payload, diff, diffSummary, isPullRequest, commentOnPR,
                   failOnIncrease, fsFiles, stepSummary, failed, thread, comments, calls>>

SetOutputs ==
    /\ pc = "outputs"
    /\ outputs' = outputsOf(version, diffSummary, diff)
    /\ pc' = IF isPullRequest /\ commentOnPR THEN "list"
             ELSE IF ~isPullRequest THEN "summary"
             ELSE "failcheck"
    /\ UNCHANGED <<detect, other, version, payload, diff, diffSummary, isPullRequest, commentOnPR,
                   failOnIncrease, fsFiles, stepSummary, failed, thread, comments, calls>>

\* ListComments, were the listing to end before the last comment
ListComments_firstPage ==
    /\ pc = "list"
    /\ comments' = SubSeq(thread, 1, Len(thread) - 1)
    /\ pc' = "reconcile"
    /\ UNCHANGED <<detect, other, version, payload, diff, diffSummary, isPullRequest,
                   commentOnPR, failOnIncrease, fsFiles, outputs, stepSummary, failed,
                   thread, calls>>

\* postPRComment: octokit.rest.issues.listComments
ListComments ==
    /\ pc = "list"
    /\ comments' = thread
    /\ pc' = "reconcile"
    /\ UNCHANGED <<detect, other, version, payload, diff, diffSummary, isPullRequest, commentOnPR,
                   failOnIncrease, fsFiles, outputs, stepSummary, failed, thread, calls>>

\* NoComment, were it to post the resolved body all the same
NoComment_postsResolved ==
    /\ pc = "reconcile"
    /\ ~hasFindings(diff)
    /\ existingComment(comments) = 0
    /\ thread' = createComment(thread, resolvedBody)
    /\ calls' = Append(calls, [op |-> "create", body |-> resolvedBody])
    /\ pc' = "failcheck"
    /\ UNCHANGED <<detect, other, version, payload, diff, diffSummary, isPullRequest, commentOnPR,
                   failOnIncrease, fsFiles, outputs, stepSummary, failed, comments>>

\* postPRComment: no findings and no marked comment, nothing is posted
NoComment ==
    /\ pc = "reconcile"
    /\ ~hasFindings(diff)
    /\ existingComment(comments) = 0
    /\ pc' = "failcheck"
    /\ UNCHANGED <<detect, other, version, payload, diff, diffSummary, isPullRequest, commentOnPR,
                   failOnIncrease, fsFiles, outputs, stepSummary, failed, thread,
                   comments, calls>>

\* UpdateResolved, were it to write the rendered body of the findings
UpdateResolved_keepsFindings ==
    /\ pc = "reconcile"
    /\ ~hasFindings(diff)
    /\ existingComment(comments) # 0
    /\ LET id == comments[existingComment(comments)].id
           body == bodyWith(version, diffSummary, diff)
       IN /\ thread' = updateComment(thread, id, body)
          /\ calls' = Append(calls, [op |-> "update", comment_id |-> id, body |-> body])
    /\ pc' = "failcheck"
    /\ UNCHANGED <<detect, other, version, payload, diff, diffSummary, isPullRequest, commentOnPR,
                   failOnIncrease, fsFiles, outputs, stepSummary, failed, comments>>

\* postPRComment: no findings, the marked comment is rewritten as resolved
UpdateResolved ==
    /\ pc = "reconcile"
    /\ ~hasFindings(diff)
    /\ existingComment(comments) # 0
    /\ LET id == comments[existingComment(comments)].id
       IN /\ thread' = updateComment(thread, id, resolvedBody)
          /\ calls' = Append(calls, [op |-> "update", comment_id |-> id, body |-> resolvedBody])
    /\ pc' = "failcheck"
    /\ UNCHANGED <<detect, other, version, payload, diff, diffSummary, isPullRequest, commentOnPR,
                   failOnIncrease, fsFiles, outputs, stepSummary, failed, comments>>

\* UpdateFindings, were it to create a second comment
UpdateFindings_createsAnew ==
    /\ pc = "reconcile"
    /\ hasFindings(diff)
    /\ existingComment(comments) # 0
    /\ LET body == bodyWith(version, diffSummary, diff)
       IN /\ thread' = createComment(thread, body)
          /\ calls' = Append(calls, [op |-> "create", body |-> body])
    /\ pc' = "failcheck"
    /\ UNCHANGED <<detect, other, version, payload, diff, diffSummary, isPullRequest, commentOnPR,
                   failOnIncrease, fsFiles, outputs, stepSummary, failed, comments>>

\* postPRComment: findings, the marked comment is rewritten
UpdateFindings ==
    /\ pc = "reconcile"
    /\ hasFindings(diff)
    /\ existingComment(comments) # 0
    /\ LET id == comments[existingComment(comments)].id
           body == bodyWith(version, diffSummary, diff)
       IN /\ thread' = updateComment(thread, id, body)
          /\ calls' = Append(calls, [op |-> "update", comment_id |-> id, body |-> body])
    /\ pc' = "failcheck"
    /\ UNCHANGED <<detect, other, version, payload, diff, diffSummary, isPullRequest, commentOnPR,
                   failOnIncrease, fsFiles, outputs, stepSummary, failed, comments>>

\* postPRComment: findings and no marked comment, a comment is created
CreateFindings ==
    /\ pc = "reconcile"
    /\ hasFindings(diff)
    /\ existingComment(comments) = 0
    /\ LET body == bodyWith(version, diffSummary, diff)
       IN /\ thread' = createComment(thread, body)
          /\ calls' = Append(calls, [op |-> "create", body |-> body])
    /\ pc' = "failcheck"
    /\ UNCHANGED <<detect, other, version, payload, diff, diffSummary, isPullRequest, commentOnPR,
                   failOnIncrease, fsFiles, outputs, stepSummary, failed, comments>>

\* core.summary ... .write() outside a pull request
WriteSummary ==
    /\ pc = "summary"
    /\ stepSummary' = TRUE
    /\ pc' = "failcheck"
    /\ UNCHANGED <<detect, other, version, payload, diff, diffSummary, isPullRequest, commentOnPR,
                   failOnIncrease, fsFiles, outputs, failed, thread, comments, calls>>

\* the message of core.setFailed when the risk increased
riskFailureMessage == Text("Malcontent analysis detected increased risk in this PR")

\* if (failOnIncrease && diff.riskIncreased) core.setFailed(...)
FailCheck ==
    /\ pc = "failcheck"
    /\ failed' = IF failOnIncrease /\ diff.riskIncreased THEN "risk" ELSE failed
    /\ pc' = "cleanup"
    /\ UNCHANGED <<detect, other, version, payload, diff, diffSummary, isPullRequest, commentOnPR,
                   failOnIncrease, fsFiles, outputs, stepSummary, thread, comments, calls>>

\* fs.rm(tempDir, { recursive: true, force: true })
CleanUp ==
    /\ pc = "cleanup"
    /\ fsFiles' = {}
    /\ pc' = "done"
    /\ UNCHANGED <<detect, other, version, payload, diff, diffSummary, isPullRequest, commentOnPR,
                   failOnIncrease, outputs, stepSummary, failed, thread, comments, calls>>

\* fs.rm rejects: a warning, the files stay
CleanUpFails ==
    /\ pc = "cleanup"
    /\ pc' = "done"
    /\ UNCHANGED <<detect, other, version, payload, diff, diffSummary, isPullRequest, commentOnPR,
                   failOnIncrease, fsFiles, outputs, stepSummary, failed, thread,
                   comments, calls>>

\* an awaited call rejects (the scanner, a file write, the comment API, the
\* summary write): the outer catch calls core.setFailed(error.message) and
\* run() ends without the clean-up
Throw ==
    /\ pc \in {"start", "report", "sarif", "list", "reconcile", "summary"}
    /\ pc = "reconcile" => (hasFindings(diff) \/ existingComment(comments) # 0)
    /\ failed' = "error"
    /\ pc' = "done"
    /\ UNCHANGED <<detect, other, version, payload, diff, diffSummary, isPullRequest, commentOnPR,
                   failOnIncrease, fsFiles, outputs, stepSummary, thread, comments, calls>>

Next ==
    \/ ParseDiff
    \/ WriteReport
    \/ WriteSarif
    \/ SetOutputs
    \/ ListComments
    \/ NoComment
    \/ UpdateResolved
    \/ UpdateFindings
    \/ CreateFindings
    \/ WriteSummary
    \/ FailCheck
    \/ CleanUp
    \/ CleanUpFails
    \/ Throw

Spec == Init /\ [][Next]_vars

SpecBoth == InitBoth /\ [][Next]_vars

---------------------------------------------------------------------------
(* The reports of a run: run() from the scanner's output to the SARIF file, *)
(* over payloads whose behaviors differ in level, rule name, description    *)
(* and match strings, and whose files carry a Path or none.                 *)

ReportBehaviors ==
    << [Description |-> "Runs Exec", RiskLevel |-> "CRITICAL", RiskScore |-> 8],
       [Description |-> "runs  exec", RiskLevel |-> "high", RiskScore |-> 5],
       [Description |-> "net", RuleName |-> "rule_net", RiskLevel |-> "Medium",
        RiskScore |-> 3],
       [Description |-> "dns", RuleName |-> "rule_net", RiskLevel |-> "LOW",
        RiskScore |-> 1],
       [Description |-> "odd", RiskLevel |-> "UNKNOWN"],
       [MatchStrings |-> <<"m1", "m2">>] >>

ReportGone == << MarkRemoved(ReportBehaviors[1]), MarkRemoved(ReportBehaviors[3]) >>

ReportBehaviorsIn(bucket) ==
    IF bucket = 3 THEN ReportBehaviors \o ReportGone ELSE ReportBehaviors

ReportFits(n, buckets, counts, fill) ==
    \A i \in 1..n : \A j \in 1..counts[i] :
        fill[HeldBefore(counts, i) + j] <= Len(ReportBehaviorsIn(buckets[i]))

ReportContentOf(n, buckets, counts, fill) ==
    [i \in 1..n |->
        [bucket |-> buckets[i],
         Behaviors |-> [j \in 1..counts[i] |->
                          ReportBehaviorsIn(buckets[i])[fill[HeldBefore(counts, i) + j]]]]]

IsSegment(segment) == segment # ""

\* the Path the scanner reports for the file of a key: the file under /tmp
PathOfKey(key) == <<"", "tmp">> \o SelectSeq(key, IsSegment)

ReportEntries(c, b, withPath) ==
    [i \in 1..Len(InBucket(c, b)) |->
        [key |-> Keys[i],
         data |-> IF withPath
                  THEN [Behaviors |-> InBucket(c, b)[i].Behaviors, Path |-> PathOfKey(Keys[i])]
                  ELSE [Behaviors |-> InBucket(c, b)[i].Behaviors]]]

ReportShape(c, withPath) ==
    [kind |-> "json",
     value |-> [Diff |-> [Added |-> ReportEntries(c, 1, withPath),
                          Removed |-> ReportEntries(c, 2, withPath),
                          Modified |-> ReportEntries(c, 3, withPath)]]]

IsReportPayload(p) ==
    \E n \in 0..MaxFiles :
      \E buckets \in [1..n -> Buckets] :
        \E counts \in [1..n -> 0..MaxBehaviors] :
          /\ IsOutline(n, buckets, counts)
          /\ \E fill \in [1..HeldBefore(counts, n + 1) -> 1..Len(ReportBehaviorsIn(3))] :
               /\ ReportFits(n, buckets, counts, fill)
               /\ \E withPath \in BOOLEAN :
                    p = ReportShape(ReportContentOf(n, buckets, counts, fill), withPath)

InitReport ==
    /\ version = "part_003"
    /\ pc = "start"
    /\ IsReportPayload(payload)
    /\ diff = EmptyDiff
    /\ IdleRun

NextReport ==
    \/ ParseDiff
    \/ WriteReport
    \/ WriteSarif

SpecReport == InitReport /\ [][NextReport]_vars

---------------------------------------------------------------------------
(* The summary of long buckets: run() up to generateDiffSummary, over        *)
(* payloads holding up to MaxListed files in each bucket.                    *)

MaxListed == 11

\* the key of a file under /head/: the rest of the path is given by the
\* number of its characters, which tells the files of a bucket apart
FileKey(chars) == <<"", "head", chars>>

\* files without behaviors, in the shape the generation reads
ListedData(v, b) ==
    IF v = "part_003" THEN [Behaviors |-> <<>>]
    ELSE IF b = 3 THEN [previous |-> LegacyFindings(<<>>), current |-> LegacyFindings(<<>>)]
    ELSE LegacyFindings(<<>>)

ListedEntries(v, b, n, chars) ==
    [i \in 1..n |-> [key |-> FileKey(chars + i), data |-> ListedData(v, b)]]

ListedShape(v, a, r, m, chars) ==
    IF v = "part_003"
    THEN [kind |-> "json",
          value |-> [Diff |-> [Added |-> ListedEntries(v, 1, a, chars),
                               Removed |-> ListedEntries(v, 2, r, chars),
                               Modified |-> ListedEntries(v, 3, m, chars)]]]
    ELSE [kind |-> "json",
          value |-> [added |-> ListedEntries(v, 1, a, chars),
                     removed |-> ListedEntries(v, 2, r, chars),
                     modified |-> ListedEntries(v, 3, m, chars)]]

InitSummary ==
    /\ version \in {"part_003", "index_js"}
    /\ pc = "start"
    /\ \E a \in 0..MaxListed : \E r \in 0..MaxListed : \E m \in 0..MaxListed :
         payload = ListedShape(version, a, r, m, 0)
    /\ diff = EmptyDiff
    /\ IdleRun

SpecSummary == InitSummary /\ [][ParseDiff]_vars

---------------------------------------------------------------------------
(* The comment of a run over long paths: run() in a pull request, over      *)
(* payloads of up to MaxLong files in each bucket whose paths hold a few    *)
(* characters or more than LongPath characters.                             *)

MaxLong == 2

LongPath == 4000

MarkedThread == << [id |-> CommentId(1), body |-> resolvedBody] >>

InitBody ==
    /\ version = "part_003"
    /\ pc = "start"
    /\ \E a \in 0..MaxLong : \E r \in 0..MaxLong : \E m \in 0..MaxLong :
         \E chars \in {0, LongPath} :
            payload = ListedShape(version, a, r, m, chars)
    /\ diff = EmptyDiff
    /\ diffSummary = <<>>
    /\ isPullRequest \in BOOLEAN
    /\ commentOnPR \in BOOLEAN
    /\ failOnIncrease \in BOOLEAN
    /\ fsFiles = {}
    /\ outputs = NoOutputs
    /\ stepSummary = FALSE
    /\ failed = "none"
    /\ thread \in (IF isPullRequest THEN {<<>>, MarkedThread} ELSE {<<>>})
    /\ comments = <<>>
    /\ calls = <<>>
    /\ other = NoOther
    /\ detect = NotDetecting

SpecBody == InitBody /\ [][Next]_vars

---------------------------------------------------------------------------
(* The renderings of a run over pairs of files: run() over payloads of no   *)
(* file or of two files, which may lie in one bucket.                       *)

RenderContents ==
    {<<>>} \cup {c \in [1..2 -> RunFiles] : c[1].bucket <= c[2].bucket}

InitRender ==
    /\ version = "part_003"
    /\ pc = "start"
    /\ payload \in {CurrentShape(c) : c \in RenderContents}
    /\ diff = EmptyDiff
    /\ diffSummary = <<>>
    /\ isPullRequest \in BOOLEAN
    /\ commentOnPR \in BOOLEAN
    /\ failOnIncrease \in BOOLEAN
    /\ fsFiles = {}
    /\ outputs = NoOutputs
    /\ stepSummary = FALSE
    /\ failed = "none"
    /\ thread \in (IF isPullRequest THEN {<<>>, MarkedThread} ELSE {<<>>})
    /\ comments = <<>>
    /\ calls = <<>>
    /\ other = NoOther
    /\ detect = NotDetecting

SpecRender == InitRender /\ [][Next]_vars

---------------------------------------------------------------------------
(* The composite action: its step "Detect Severity of Findings" applied to  *)
(* the scanner's JSON report, under the inputs min-risk and exit-code.      *)

RiskLevels == <<"LOW", "MEDIUM", "HIGH", "CRITICAL">>

\* a file of the report: its own RiskLevel or none, one behavior with a
\* RiskLevel or none
DetectFiles ==
    {[Behaviors |-> <<>>]}
    \cup {[RiskLevel |-> RiskLevels[l], Behaviors |-> <<>>] : l \in 1..4}
    \cup {[Behaviors |-> << [RiskLevel |-> RiskLevels[l]] >>] : l \in 1..4}

DetectBuckets == {<<>>} \cup {<< [key |-> Keys[1], data |-> f] >> : f \in DetectFiles}

DetectPayloads ==
    {[kind |-> "json", value |-> [Diff |-> [Added |-> a, Removed |-> r, Modified |-> m]]] :
        a \in DetectBuckets, r \in DetectBuckets, m \in DetectBuckets}

\* jq -e 'any(.Diff.Modified[].RiskLevel; . == L)' ||
\* jq -e 'any(.Diff.Modified[].Behaviors[]?; .RiskLevel == L)'
hasLevel(json, level) ==
    \E i \in 1..Len(json.Diff.Modified) :
        LET data == json.Diff.Modified[i].data
        IN \/ Has(data, "RiskLevel") /\ data.RiskLevel = level
           \/ \E j \in 1..Len(data.Behaviors) :
                Has(data.Behaviors[j], "RiskLevel") /\ data.Behaviors[j].RiskLevel = level

\* case min-risk in critical) ... high) ... medium) ... low) ... *) esac:
\* whether exit "$exit_code" is run
exitEnforced(json, minRisk) ==
    CASE minRisk = "critical" -> hasLevel(json, "CRITICAL")
      [] minRisk = "high" -> hasLevel(json, "CRITICAL") \/ hasLevel(json, "HIGH")
      [] minRisk = "medium" ->
            hasLevel(json, "CRITICAL") \/ hasLevel(json, "HIGH") \/ hasLevel(json, "MEDIUM")
      [] minRisk = "low" ->
            \/ hasLevel(json, "CRITICAL") \/ hasLevel(json, "HIGH")
            \/ hasLevel(json, "MEDIUM") \/ hasLevel(json, "LOW")
      [] OTHER -> FALSE

InitDetect ==
    /\ version = "composite"
    /\ pc = "detect"
    /\ payload \in DetectPayloads
    /\ detect \in [minRisk : {"low", "medium", "high", "critical", "HIGH"},
                   exitCode : {0, 1, 3},
                   status : {"running"}]
    /\ diff = EmptyDiff
    /\ diffSummary = <<>>
    /\ isPullRequest = FALSE
    /\ commentOnPR = FALSE
    /\ failOnIncrease = FALSE
    /\ fsFiles = {}
    /\ outputs = NoOutputs
    /\ stepSummary = FALSE
    /\ failed = "none"
    /\ thread = <<>>
    /\ comments = <<>>
    /\ calls = <<>>
    /\ other = NoOther

\* the step ends with exit "$exit_code" or runs to its last line
DetectSeverity ==
    /\ pc = "detect"
    /\ detect' = IF exitEnforced(payload.value, detect.minRisk)
                 THEN [minRisk |-> detect.minRisk, exitCode |-> detect.exitCode,
                       status |-> "exited", code |-> detect.exitCode]
                 ELSE [minRisk |-> detect.minRisk, exitCode |-> detect.exitCode,
                       status |-> "passed"]
    /\ pc' = "detected"
    /\ UNCHANGED <<other, version, payload, diff, diffSummary, isPullRequest, commentOnPR,
                   failOnIncrease, fsFiles, outputs, stepSummary, failed, thread,
                   comments, calls>>

SpecDetect == InitDetect /\ [][DetectSeverity]_vars

---------------------------------------------------------------------------
(* Runs in sequence on one pull request: when a run has ended the workflow  *)
(* runs the action again, on another payload and on the thread as it is.    *)

AgainContents ==
    { <<>>,
      << [bucket |-> 1, Behaviors |-> << PlainBehaviors[1] >>] >>,
      << [bucket |-> 3, Behaviors |-> << GoneBehaviors[1] >>] >> }

AgainPayloads(v) ==
    IF v = "part_003" THEN {CurrentShape(c) : c \in AgainContents}
    ELSE {LegacyShape(c) : c \in AgainContents}

InitRuns ==
    /\ version \in {"part_003", "index_js"}
    /\ pc = "start"
    /\ payload \in AgainPayloads(version)
    /\ diff = EmptyDiff
    /\ diffSummary = <<>>
    /\ isPullRequest \in BOOLEAN
    /\ commentOnPR \in BOOLEAN
    /\ failOnIncrease \in BOOLEAN
    /\ fsFiles = {}
    /\ outputs = NoOutputs
    /\ stepSummary = FALSE
    /\ failed = "none"
    /\ thread \in (IF isPullRequest
                   THEN {<<>>, << [id |-> CommentId(1), body |-> << Text("LGTM") >>] >>}
                   ELSE {<<>>})
    /\ comments = <<>>
    /\ calls = <<>>
    /\ other = NoOther
    /\ detect = NotDetecting

\* the next run of the workflow: run() starts afresh, the thread stays
RunAgain ==
    /\ pc = "done"
    /\ pc' = "start"
    /\ payload' \in AgainPayloads(version)
    /\ diff' = EmptyDiff
    /\ diffSummary' = <<>>
    /\ fsFiles' = {}
    /\ outputs' = NoOutputs
    /\ stepSummary' = FALSE
    /\ failed' = "none"
    /\ comments' = <<>>
    /\ calls' = <<>>
    /\ UNCHANGED <<detect, other, version, isPullRequest, commentOnPR, failOnIncrease,
                   thread>>

NextRuns == Next \/ RunAgain

SpecRuns == InitRuns /\ [][NextRuns]_vars

---------------------------------------------------------------------------
(* Two runs at the same time on one pull request: next to run(), a second   *)
(* run's postPRComment lists the thread and creates or updates its comment. *)

\* the body the second run sends when it has findings
otherBody ==
    << Text(commentMarker), [t |-> "## Security Risk Increased (+$1 points)", n |-> 8] >>

InitRace ==
    /\ version = "part_003"
    /\ pc = "start"
    /\ payload \in AgainPayloads(version)
    /\ diff = EmptyDiff
    /\ diffSummary = <<>>
    /\ isPullRequest \in BOOLEAN
    /\ commentOnPR \in BOOLEAN
    /\ failOnIncrease \in BOOLEAN
    /\ fsFiles = {}
    /\ outputs = NoOutputs
    /\ stepSummary = FALSE
    /\ failed = "none"
    /\ thread \in (IF isPullRequest
                   THEN {<<>>, << [id |-> CommentId(1), body |-> << Text("LGTM") >>] >>,
                         MarkedThread}
                   ELSE {<<>>})
    /\ comments = <<>>
    /\ calls = <<>>
    /\ other \in (IF isPullRequest /\ commentOnPR
                  THEN {[pc |-> "list", comments |-> <<>>, findings |-> f] : f \in BOOLEAN}
                  ELSE {NoOther})
    /\ detect = NotDetecting

\* the second run: octokit.rest.issues.listComments
OtherList ==
    /\ other.pc = "list"
    /\ other' = [other EXCEPT !.pc = "reconcile", !.comments = thread]
    /\ UNCHANGED <<detect, version, pc, payload, diff, diffSummary, isPullRequest,
                   commentOnPR, failOnIncrease, fsFiles, outputs, stepSummary, failed,
                   thread, comments, calls>>

\* the second run: update of the comment it found, or create, or nothing
OtherReconcile ==
    /\ other.pc = "reconcile"
    /\ LET found == existingComment(other.comments)
       IN thread' =
            IF other.findings
            THEN IF found # 0
                 THEN updateComment(thread, other.comments[found].id, otherBody)
                 ELSE createComment(thread, otherBody)
            ELSE IF found # 0
                 THEN updateComment(thread, other.comments[found].id, resolvedBody)
                 ELSE thread
    /\ other' = [other EXCEPT !.pc = "done"]
    /\ UNCHANGED <<detect, version, pc, payload, diff, diffSummary, isPullRequest,
                   commentOnPR, failOnIncrease, fsFiles, outputs, stepSummary, failed,
                   comments, calls>>

NextRace == Next \/ OtherList \/ OtherReconcile

SpecRace == InitRace /\ [][NextRace]_vars

---------------------------------------------------------------------------
(* Claims on the normalizer *)

riskScoreOf(item) == item.riskScore
riskDeltaOf(item) == item.riskDelta

\* parseDiffOutput returned from its try block
NormalizedOk == pc = "parsed" /\ Has(diff.raw, "json")

\* C1: for every payload that normalizes successfully, totalRiskDelta is the
\* sum of the added files' riskScore, minus the sum of the removed files'
\* riskScore, plus the sum of the modified files' net riskDelta.
C1_TotalIsSignedSum ==
    NormalizedOk =>
        diff.totalRiskDelta =
            SumSeq(Map(diff.added, riskScoreOf))
            - SumSeq(Map(diff.removed, riskScoreOf))
            + SumSeq(Map(diff.changed, riskDeltaOf))

\* C2: riskIncreased is true exactly when some added file has riskScore > 0
\* or some modified file has a positive net riskDelta; removed files never
\* set it. One added file of score 8 and one removed file of score 3 give
\* totalRiskDelta = 5 and riskIncreased = true.
C2_RiskIncreasedIff ==
    pc = "parsed" =>
        /\ diff.riskIncreased <=>
              \/ \E i \in 1..Len(diff.added) : diff.added[i].riskScore > 0
              \/ \E i \in 1..Len(diff.changed) : diff.changed[i].riskDelta > 0
        /\ ( /\ Map(diff.added, riskScoreOf) = <<8>>
             /\ Map(diff.removed, riskScoreOf) = <<3>>
             /\ diff.changed = <<>> )
           => (diff.totalRiskDelta = 5 /\ diff.riskIncreased)

C2_Witness ==
    /\ pc = "parsed"
    /\ Map(diff.added, riskScoreOf) = <<8>>
    /\ Map(diff.removed, riskScoreOf) = <<3>>
    /\ diff.changed = <<>>
    /\ diff.totalRiskDelta = 5
    /\ diff.riskIncreased

\* the normalizer left through its catch block: raw holds the input text
TookFallback == pc = "parsed" /\ Has(diff.raw, "text")

\* C11: when parseDiffOutput takes its fallback path the three buckets are
\* empty, totalRiskDelta is 0, riskIncreased is false and raw is the input
\* text.
C11_FallbackIsEmpty ==
    TookFallback =>
        /\ diff.added = <<>> /\ diff.removed = <<>> /\ diff.changed = <<>>
        /\ diff.totalRiskDelta = 0
        /\ ~diff.riskIncreased
        /\ diff.raw = [text |-> payload]

\* the file entries of a payload's bucket, in whichever shape it is written
PayloadEntries(p, upper, lower) ==
    IF Has(p.value, "Diff") THEN p.value.Diff[upper] ELSE p.value[lower]

\* the number of behaviors a payload's file entry holds
PayloadBehaviorCount(data) ==
    IF Has(data, "Behaviors") THEN Len(data.Behaviors)
    ELSE IF Has(data, "behaviors") THEN Len(data.behaviors)
    ELSE Len(data.previous.behaviors) + Len(data.current.behaviors)

SameFiles(bucket, entries) ==
    /\ Len(bucket) = Len(entries)
    /\ \A i \in 1..Len(entries) :
         /\ bucket[i].file = entries[i].key
         /\ Len(bucket[i].behaviors) = PayloadBehaviorCount(entries[i].data)

\* C12: for a payload of either shape that parses, each bucket holds the
\* payload's files of that bucket, with the same paths and the same numbers
\* of behaviors.
C12_BothShapesKeepFiles ==
    NormalizedOk =>
        /\ SameFiles(diff.added, PayloadEntries(payload, "Added", "added"))
        /\ SameFiles(diff.removed, PayloadEntries(payload, "Removed", "removed"))
        /\ SameFiles(diff.changed, PayloadEntries(payload, "Modified", "modified"))

\* the risk score of a behavior as the risk model derives it: the explicit
\* score if the field is present, else the table value of the level, else 0
DerivedScore(b) ==
    IF Has(b, "RiskScore") THEN b.RiskScore
    ELSE IF ~Has(b, "RiskLevel") THEN 0
    ELSE CASE toLowerCase(b.RiskLevel) = "critical" -> 10
           [] toLowerCase(b.RiskLevel) = "high" -> 5
           [] toLowerCase(b.RiskLevel) = "medium" -> 3
           [] toLowerCase(b.RiskLevel) = "low" -> 1
           [] OTHER -> 0

DerivedSum(behaviors) == SumSeq(Map(behaviors, DerivedScore))

\* C13: the score of every added and removed file is the sum of the derived
\* scores of its behaviors, and the delta of every modified file is the
\* difference of the derived sums of its added and its removed behaviors.
C13_ScoreDerivation ==
    NormalizedOk =>
        /\ \A i \in 1..Len(diff.added) :
             diff.added[i].riskScore = DerivedSum(diff.added[i].behaviors)
        /\ \A i \in 1..Len(diff.removed) :
             diff.removed[i].riskScore = DerivedSum(diff.removed[i].behaviors)
        /\ \A i \in 1..Len(diff.changed) :
             diff.changed[i].riskDelta =
                 DerivedSum(diff.changed[i].addedBehaviors)
                 - DerivedSum(diff.changed[i].removedBehaviors)

\* C14: the behaviors of every modified file are split by the DiffRemoved
\* marker into addedBehaviors and removedBehaviors, each behavior in exactly
\* one of them, and the file's delta is the sum of the scores of the first
\* minus the sum of the scores of the second.
C14_ModifiedNetScore ==
    NormalizedOk =>
        \A i \in 1..Len(diff.changed) :
            LET item == diff.changed[i]
            IN /\ item.addedBehaviors = SelectSeq(item.behaviors, NotDiffRemoved)
               /\ item.removedBehaviors = SelectSeq(item.behaviors, IsDiffRemoved)
               /\ Len(item.addedBehaviors) + Len(item.removedBehaviors) = Len(item.behaviors)
               /\ item.riskDelta =
                    DerivedSum(item.addedBehaviors) - DerivedSum(item.removedBehaviors)

---------------------------------------------------------------------------
(* Claims on run() *)

ReportWritten ==
    \E f \in fsFiles : f.path = reportPath /\ f.content = [json |-> diff]

SarifWritten ==
    \E f \in fsFiles : f.path = sarifPath /\ Has(f.content, "sarif")

\* C3: the risk-increased output is true exactly when the risk-delta output
\* is strictly positive, and a run failed for risk has a strictly positive
\* risk-delta.
C3_FlagIffPositiveDelta ==
    outputs.set =>
        /\ outputs.riskIncreased <=> outputs.riskDelta > 0
        /\ failed = "risk" => outputs.riskDelta > 0

\* C4 as stated: when the risk failure is raised, the JSON report, the SARIF
\* report and the comment or the job summary have been produced.
C4_AllArtifactsBeforeFailure ==
    (pc = "cleanup" /\ failed = "risk") =>
        /\ ReportWritten
        /\ SarifWritten
        /\ Len(calls) = 1 \/ stepSummary

\* C4: when the risk failure is raised, the JSON report and the SARIF report
\* have been written; the comment has been posted in a pull request run with
\* comment-on-pr, the job summary written outside a pull request, and in a
\* pull request run without comment-on-pr neither is produced.
C4_ArtifactsBeforeFailure ==
    (pc = "cleanup" /\ failed = "risk") =>
        /\ ReportWritten
        /\ SarifWritten
        /\ (isPullRequest /\ commentOnPR) =>
              (Len(calls) = 1 /\ ~stepSummary
               /\ \E i \in 1..Len(thread) : thread[i].body = calls[1].body)
        /\ ~isPullRequest => (stepSummary /\ calls = <<>>)
        /\ (isPullRequest /\ ~commentOnPR) => (~stepSummary /\ calls = <<>>)

C4_Witness ==
    /\ pc = "cleanup"
    /\ failed = "risk"
    /\ isPullRequest /\ commentOnPR
    /\ Len(calls) = 1
    /\ ReportWritten /\ SarifWritten

\* C5: when the run has finished, the files named by the report-file and
\* sarif-file outputs exist and hold the reports.
C5_ReportFilesRemain ==
    (pc = "done" /\ outputs.set) => (ReportWritten /\ SarifWritten)

---------------------------------------------------------------------------
(* Claims on postPRComment *)

Reconciled ==
    /\ pc \in {"failcheck", "cleanup", "done"}
    /\ isPullRequest /\ commentOnPR
    /\ failed # "error"

NoEntries == diff.added = <<>> /\ diff.removed = <<>> /\ diff.changed = <<>>

Marked(comment) == includes(comment.body, commentMarker)

\* the position in the listing of the first marked comment, 0 when none is
FirstMarked(cs) ==
    IF \E i \in 1..Len(cs) : Marked(cs[i])
    THEN CHOOSE i \in 1..Len(cs) :
            Marked(cs[i]) /\ \A j \in 1..(i - 1) : ~Marked(cs[j])
    ELSE 0

IsBlank(line) == line = Text("")

\* C6: with no entry in any bucket and no marked comment in the listing, no
\* create and no update call is made and the thread is as it was listed.
C6_NoFindingsNoCommentNoCall ==
    (Reconciled /\ NoEntries /\ FirstMarked(comments) = 0) =>
        (calls = <<>> /\ thread = comments)

C6_Witness ==
    /\ Reconciled /\ NoEntries
    /\ Len(comments) = MaxComments
    /\ FirstMarked(comments) = 0
    /\ calls = <<>>

\* C7: with no entry in any bucket and a marked comment in the listing,
\* exactly one call is made, an update of the first marked comment; its body
\* is fixed text that starts with the marker, holds the resolution message
\* and holds no line of the summary; no comment is created.
C7_NoFindingsResolves ==
    (Reconciled /\ NoEntries /\ FirstMarked(comments) # 0) =>
        /\ Len(calls) = 1
        /\ calls[1].op = "update"
        /\ calls[1].comment_id = comments[FirstMarked(comments)].id
        /\ calls[1].body[1] = Text(commentMarker)
        /\ \E i \in 1..Len(calls[1].body) :
              calls[1].body[i] = Text("Previously detected security issues have been resolved.")
        /\ \A i \in 1..Len(calls[1].body) :
              /\ DOMAIN calls[1].body[i] = {"t"}
              /\ \A j \in 1..Len(diffSummary) :
                    ~IsBlank(diffSummary[j]) => calls[1].body[i] # diffSummary[j]
        /\ Len(thread) = Len(comments)
        /\ thread[FirstMarked(comments)].body = calls[1].body

C7_Witness ==
    /\ Reconciled /\ NoEntries
    /\ FirstMarked(comments) = 2
    /\ Len(calls) = 1
    /\ calls[1].op = "update"
    /\ thread[2].body # comments[2].body

\* C8: with an entry in some bucket exactly one call is made; its body is the
\* marker, then the whole summary, then the report block; it is a create
\* when the listing holds no marked comment, and otherwise an update of the
\* first marked comment, with no comment created.
C8_FindingsOneCall ==
    (Reconciled /\ ~NoEntries) =>
        /\ Len(calls) = 1
        /\ calls[1].body[1] = Text(commentMarker)
        /\ SubSeq(calls[1].body, 2, 1 + Len(diffSummary)) = diffSummary
        /\ \E i \in 1..Len(calls[1].body) : calls[1].body[i].t = "JSON"
        /\ IF FirstMarked(comments) = 0
           THEN /\ calls[1].op = "create"
                /\ Len(thread) = Len(comments) + 1
                /\ thread[Len(thread)].body = calls[1].body
           ELSE /\ calls[1].op = "update"
                /\ calls[1].comment_id = comments[FirstMarked(comments)].id
                /\ Len(thread) = Len(comments)
                /\ thread[FirstMarked(comments)].body = calls[1].body

C8_Witness ==
    /\ Reconciled /\ ~NoEntries
    /\ version = "index_js"
    /\ FirstMarked(comments) # 0
    /\ Len(calls) = 1
    /\ calls[1].op = "update"
    /\ Len(diffSummary) > 0

\* C9: the first line of every body sent in a create or an update is the
\* marker, and the comment written is a marked comment of the thread.
C9_MarkerFirstLine ==
    \A i \in 1..Len(calls) :
        /\ calls[i].body[1] = Text(commentMarker)
        /\ \E k \in 1..Len(thread) :
              thread[k].body = calls[i].body /\ Marked(thread[k])

C9_Witness ==
    /\ Len(calls) = 1
    /\ calls[1].op = "create"
    /\ calls[1].body[1] = Text(commentMarker)
    /\ Len(calls[1].body) > Len(resolvedBody)

\* C10: a step that changes the thread either appends one comment, when the
\* listing holds no marked comment, or rewrites the body of the first marked
\* comment of the listing; every other comment, marked or not, keeps its id
\* and its body.
C10_OnlyFirstMarkedWritten ==
    [][thread' # thread =>
         IF FirstMarked(comments) = 0
         THEN /\ Len(thread') = Len(thread) + 1
              /\ SubSeq(thread', 1, Len(thread)) = thread
         ELSE /\ Len(thread') = Len(thread)
              /\ calls'[Len(calls')].comment_id = comments[FirstMarked(comments)].id
              /\ \A i \in 1..Len(thread) :
                    /\ thread'[i].id = thread[i].id
                    /\ i # FirstMarked(comments) => thread'[i] = thread[i]]_vars

C10_Witness ==
    /\ Len(calls) = 1
    /\ calls[1].op = "update"
    /\ \E i, j \in 1..Len(comments) :
          /\ i < j
          /\ Marked(comments[i]) /\ Marked(comments[j])
          /\ calls[1].comment_id = comments[i].id
          /\ thread[i].body # comments[i].body
          /\ thread[j] = comments[j]

---------------------------------------------------------------------------
(* Claims on generateSarifReport *)

\* the SARIF file has been written
Rendered == pc = "outputs" /\ \E f \in fsFiles : f.path = sarifPath

SarifReport == (CHOOSE f \in fsFiles : f.path = sarifPath).content.sarif

BehaviorsOfEntry(entry) == entry.data.Behaviors

KeptBehaviorsOfEntry(entry) == SelectSeq(entry.data.Behaviors, NotDiffRemoved)

\* the behaviors of the payload the report is to cover: those of the added
\* files, then those of the modified files that are not marked DiffRemoved
ToReport ==
    Flatten(Map(payload.value.Diff.Added, BehaviorsOfEntry))
    \o Flatten(Map(payload.value.Diff.Modified, KeptBehaviorsOfEntry))

\* C15: the report holds one result per behavior of the added files and per
\* unmarked behavior of the modified files, in that order, and none for the
\* removed files or the marked behaviors.
C15_ResultsAreAddedOnly ==
    Rendered =>
        /\ Len(SarifReport.results) = Len(ToReport)
        /\ \A i \in 1..Len(ToReport) :
             SarifReport.results[i].text =
                 StrOr(ToReport[i], "Description", "Security behavior detected")

C15_Witness ==
    /\ Rendered
    /\ Len(payload.value.Diff.Modified) = 1
    /\ Len(payload.value.Diff.Modified[1].data.Behaviors) = 2
    /\ Len(KeptBehaviorsOfEntry(payload.value.Diff.Modified[1])) = 1
    /\ Len(SarifReport.results) = 1

\* the position of the first result with the rule id
FirstResultOf(id) ==
    CHOOSE i \in 1..Len(SarifReport.results) :
        /\ SarifReport.results[i].ruleId = id
        /\ \A j \in 1..(i - 1) : SarifReport.results[j].ruleId # id

\* C16: the id of a result is the rule name of its behavior if it has one,
\* otherwise the prefix and the slug of the description; every result's id
\* is the id of exactly one rule, every rule is the rule of some result, and
\* a rule is built from the first behavior reported with its id.
C16_OneRulePerIdentity ==
    Rendered =>
        /\ \A i \in 1..Len(SarifReport.results) :
             /\ Cardinality({k \in 1..Len(SarifReport.rules) :
                               SarifReport.rules[k].id = SarifReport.results[i].ruleId}) = 1
             /\ IF Has(ToReport[i], "RuleName")
                THEN SarifReport.results[i].ruleId = [name |-> ToReport[i].RuleName]
                ELSE /\ SarifReport.results[i].ruleId.prefix = "malcontent-"
                     /\ (Has(ToReport[i], "Description")
                         /\ ToReport[i].Description \in {"Runs Exec", "runs  exec"})
                        => SarifReport.results[i].ruleId.slug = "runs-exec"
        /\ \A k \in 1..Len(SarifReport.rules) :
             /\ \E i \in 1..Len(SarifReport.results) :
                  SarifReport.results[i].ruleId = SarifReport.rules[k].id
             /\ SarifReport.rules[k].name =
                  StrOr(ToReport[FirstResultOf(SarifReport.rules[k].id)],
                        "Description", "Unknown behavior")

C16_Witness ==
    /\ Rendered
    /\ Len(SarifReport.results) = 2
    /\ Len(SarifReport.rules) = 1
    /\ ToReport[1].Description = "runs  exec"
    /\ ToReport[2].Description = "Runs Exec"
    /\ SarifReport.rules[1].name = "runs  exec"

\* the SARIF level of a risk level, compared without regard to case
LevelOf(b) ==
    IF ~Has(b, "RiskLevel") THEN "note"
    ELSE CASE toLowerCase(b.RiskLevel) \in {"critical", "high"} -> "error"
           [] toLowerCase(b.RiskLevel) = "medium" -> "warning"
           [] OTHER -> "note"

\* C17: the level of every result is error for a behavior of level CRITICAL
\* or HIGH, warning for MEDIUM and note for LOW, for an unrecognised level
\* and for a behavior without level, in whatever case the level is written.
C17_ResultLevel ==
    Rendered =>
        \A i \in 1..Len(SarifReport.results) :
            SarifReport.results[i].level = LevelOf(ToReport[i])

C17_Witness ==
    /\ Rendered
    /\ Len(SarifReport.results) = 2
    /\ ToReport[1].RiskLevel = "high"
    /\ SarifReport.results[1].level = "error"
    /\ ~Has(ToReport[2], "RiskLevel")
    /\ SarifReport.results[2].level = "note"

\* the severity of a risk level in the report
SeverityOf(b) ==
    IF ~Has(b, "RiskLevel") THEN "5"
    ELSE CASE toLowerCase(b.RiskLevel) = "critical" -> "9"
           [] toLowerCase(b.RiskLevel) = "high" -> "7"
           [] toLowerCase(b.RiskLevel) = "medium" -> "5"
           [] toLowerCase(b.RiskLevel) = "low" -> "3"
           [] OTHER -> "5"

\* the severity of every rule is that of the level of its first behavior
C18_SeverityFromTable ==
    Rendered =>
        \A k \in 1..Len(SarifReport.rules) :
            SarifReport.rules[k].severity =
                SeverityOf(ToReport[FirstResultOf(SarifReport.rules[k].id)])

Levelless(b) == ~Has(b, "RiskLevel") /\ ~Has(b, "RiskScore")

AllLevelless(item) == \A i \in 1..Len(item.behaviors) : Levelless(item.behaviors[i])

\* a file whose behaviors have neither risk level nor score has score 0
C18_LevellessScoresZero ==
    Rendered =>
        /\ \A i \in 1..Len(diff.added) :
             AllLevelless(diff.added[i]) => diff.added[i].riskScore = 0
        /\ \A i \in 1..Len(diff.removed) :
             AllLevelless(diff.removed[i]) => diff.removed[i].riskScore = 0
        /\ \A i \in 1..Len(diff.changed) :
             AllLevelless(diff.changed[i]) => diff.changed[i].riskDelta = 0

\* C18: the severity of a rule is 9 for CRITICAL, 7 for HIGH, 5 for MEDIUM,
\* 3 for LOW and 5 for an absent or unrecognised level, apart from the risk
\* scores: a behavior without risk level adds 0 to the score of its file
\* and has severity 5.
C18_SeverityApartFromScore ==
    C18_SeverityFromTable /\ C18_LevellessScoresZero

\* the path the scanner reports for an entry of the payload
ReportedPath(entry) == PathOr(entry.data, "Path", entry.key)

WithoutFirstSegment(path) ==
    IF Len(path) >= 3 /\ path[1] = "" THEN SubSeq(path, 3, Len(path)) ELSE path

LocationsOfEntry(entry) ==
    [i \in 1..Len(entry.data.Behaviors) |-> WithoutFirstSegment(ReportedPath(entry))]

KeptLocationsOfEntry(entry) ==
    [i \in 1..Len(KeptBehaviorsOfEntry(entry)) |-> WithoutFirstSegment(ReportedPath(entry))]

\* the location of every behavior of ToReport
ToLocate ==
    Flatten(Map(payload.value.Diff.Added, LocationsOfEntry))
    \o Flatten(Map(payload.value.Diff.Modified, KeptLocationsOfEntry))

PayloadFiles ==
    payload.value.Diff.Added \o payload.value.Diff.Removed \o payload.value.Diff.Modified

StrippedPaths ==
    {WithoutFirstSegment(ReportedPath(PayloadFiles[i])) : i \in 1..Len(PayloadFiles)}

IsHeading(line) == "file" \in DOMAIN line

IsRow(line) == "row" \in DOMAIN line

\* C19: the file of every heading of the summary, of every row of the
\* summary table and of the location of every result is the path the scanner
\* reported without its first segment.
C19_PathsStripped ==
    Rendered =>
        /\ \A i \in 1..Len(diffSummary) :
             IsHeading(diffSummary[i]) => diffSummary[i].file \in StrippedPaths
        /\ \A i \in 1..Len(summaryTable(diff)) :
             IsRow(summaryTable(diff)[i]) => summaryTable(diff)[i].row.file \in StrippedPaths
        /\ \A i \in 1..Len(SarifReport.results) :
             SarifReport.results[i].uri = ToLocate[i]

\* the headings, rows and the locations of the added files are stripped
C19_AddedPathsStripped ==
    Rendered =>
        /\ \A i \in 1..Len(diffSummary) :
             IsHeading(diffSummary[i]) => diffSummary[i].file \in StrippedPaths
        /\ \A i \in 1..Len(summaryTable(diff)) :
             IsRow(summaryTable(diff)[i]) => summaryTable(diff)[i].row.file \in StrippedPaths
        /\ \A i \in 1..Len(SarifReport.results) :
             (i <= Len(Flatten(Map(payload.value.Diff.Added, LocationsOfEntry)))
              \/ \A j \in 1..Len(payload.value.Diff.Modified) :
                    ~Has(payload.value.Diff.Modified[j].data, "Path"))
             => SarifReport.results[i].uri = ToLocate[i]

---------------------------------------------------------------------------
(* Claims on generateDiffSummary *)

\* the place of the i-th file among the files of its bucket: after the
\* files of greater key and after the earlier files of equal key
PlaceOf(keys, i) ==
    1 + Cardinality({j \in 1..Len(keys) :
                       keys[j] > keys[i] \/ (keys[j] = keys[i] /\ j < i)})

InOrder(items, keys) ==
    [p \in 1..Len(items) |->
        stripFirstSegment(items[CHOOSE i \in 1..Len(items) : PlaceOf(keys, i) = p].file)]

FileOfLine(line) == line.file

\* C20: the headings of the summary are the modified files by descending
\* riskDelta, then the added files and then the removed files by descending
\* riskScore, files of equal key in the order of the payload.
C20_SortedAndStable ==
    pc # "start" /\ diffSummary # NoChangesSummary =>
        Map(SelectSeq(diffSummary, IsHeading), FileOfLine)
          = InOrder(diff.changed, Map(diff.changed, itemRiskDelta))
            \o InOrder(diff.added, Map(diff.added, itemRiskScore))
            \o InOrder(diff.removed, Map(diff.removed, itemRiskScore))

C20_Witness ==
    /\ pc = "report"
    /\ Len(diff.added) = 2
    /\ diff.added[1].riskScore = diff.added[2].riskScore
    /\ diff.added[1].riskScore > 0
    /\ Map(SelectSeq(diffSummary, IsHeading), FileOfLine)
         = << stripFirstSegment(diff.added[1].file), stripFirstSegment(diff.added[2].file) >>

\* two modified files of which the second has the greater delta
C20_Reordered ==
    /\ pc = "report"
    /\ Len(diff.changed) = 2
    /\ diff.changed[1].riskDelta < diff.changed[2].riskDelta
    /\ Map(SelectSeq(diffSummary, IsHeading), FileOfLine)
         = << stripFirstSegment(diff.changed[2].file), stripFirstSegment(diff.changed[1].file) >>

---------------------------------------------------------------------------
(* Claims on the length of the summary *)

SummaryLines == IF version = "index_js" THEN diffSummary[1].parts ELSE diffSummary

SectionHeads ==
    {"### Modified Files", "### New Files with Security Findings", "### Removed Files",
     "### New Files with Findings ($1)", "### Removed Files with Findings ($1)",
     "### Files with Changed Findings ($1)"}

\* the lines of the section under one of the headings, none if it is absent
SectionOf(heads) ==
    LET lines == SummaryLines
        starts == {i \in 1..Len(lines) : lines[i].t \in heads}
    IN IF starts = {} THEN <<>>
       ELSE LET start == CHOOSE i \in starts : TRUE
                ends == {j \in (start + 1)..Len(lines) : lines[j].t \in SectionHeads}
                end == IF ends = {} THEN Len(lines) + 1
                       ELSE CHOOSE j \in ends : \A k \in ends : j <= k
            IN SubSeq(lines, start + 1, end - 1)

IsTrailer(line) == line.t = "- ... and $1 more"

\* the section lists the first files of the bucket up to the limit and
\* states in a trailer how many it left out, if any
Truncated(section, size, limit) ==
    /\ Len(SelectSeq(section, IsHeading)) = Min(size, limit)
    /\ IF size > limit
       THEN /\ Len(SelectSeq(section, IsTrailer)) = 1
            /\ \A i \in 1..Len(section) :
                 IsTrailer(section[i]) => section[i].n = size - limit
       ELSE SelectSeq(section, IsTrailer) = <<>>

SectionsTruncated(limit) ==
    /\ Truncated(SectionOf({"### Modified Files", "### Files with Changed Findings ($1)"}),
                 Len(diff.changed), limit)
    /\ Truncated(SectionOf({"### New Files with Security Findings",
                            "### New Files with Findings ($1)"}),
                 Len(diff.added), limit)
    /\ Truncated(SectionOf({"### Removed Files", "### Removed Files with Findings ($1)"}),
                 Len(diff.removed), limit)

\* C21: every section of the summary lists the first 5 files of its bucket
\* in the short summary and the first 10 in the extended one, with a trailer
\* giving the number of files left out when the bucket holds more, and no
\* trailer otherwise.
C21_SectionsTruncated ==
    pc = "report" =>
        IF version = "index_js" THEN SectionsTruncated(5) ELSE SectionsTruncated(10)

\* the short summary alone
C21_ShortSectionsTruncated ==
    pc = "report" /\ version = "index_js" => SectionsTruncated(5)

---------------------------------------------------------------------------
(* Claims on the size of the comment *)

\* the body size the hosting platform accepts for a comment, in characters
BodyLimit == 64 * 1024

\* the characters of the last segment of a path of FileKey
NameChars(path) == path[Len(path)]

KeyChars(entry) == NameChars(entry.key)

\* characters JSON.stringify gives the raw report at least: those of the keys
JsonCharsAtLeast(raw) ==
    SumSeq(Map(raw.json.Diff.Added, KeyChars))
    + SumSeq(Map(raw.json.Diff.Removed, KeyChars))
    + SumSeq(Map(raw.json.Diff.Modified, KeyChars))

\* characters a line of a body holds at least: the file name it prints, or
\* the characters kept of the JSON text
LineCharsAtLeast(line) ==
    IF Has(line, "file") THEN NameChars(line.file)
    ELSE IF Has(line, "row") THEN NameChars(line.row.file)
    ELSE IF Has(line, "limit") THEN Min(JsonCharsAtLeast(line.value), line.limit)
    ELSE 0

BodyCharsAtLeast(body) == SumSeq(Map(body, LineCharsAtLeast))

IsCut(line) == Has(line, "limit")

FindingsCalls == SelectSeq(calls, LAMBDA c : c.body # resolvedBody)

\* the summary follows the marker in full and the JSON text alone is cut,
\* to the budget
SummaryInFull(body) ==
    /\ SubSeq(body, 2, 1 + Len(diffSummary)) = diffSummary
    /\ Len(SelectSeq(body, IsCut)) = 1
    /\ \A i \in 1..Len(body) :
         IsCut(body[i]) => i > 1 + Len(diffSummary) /\ body[i].limit = 50000

\* C22: the body of a findings comment holds the whole summary, only its
\* raw JSON is cut, to 50000 characters, and the body is within the size
\* the platform accepts.
C22_BodyWithinLimit ==
    \A i \in 1..Len(FindingsCalls) :
        /\ SummaryInFull(FindingsCalls[i].body)
        /\ BodyCharsAtLeast(FindingsCalls[i].body) <= BodyLimit

\* the summary is whole and the JSON text alone is cut
C22_SummaryInFull ==
    \A i \in 1..Len(FindingsCalls) : SummaryInFull(FindingsCalls[i].body)

---------------------------------------------------------------------------
(* Claims on the DiffResult after rendering *)

\* C23: after the summary, the SARIF report and the comment body are
\* rendered, the DiffResult is the one the normalizer gave: the same entries
\* in the same order in every bucket, the same behaviors, totalRiskDelta and
\* riskIncreased.
C23_RenderingKeepsDiff ==
    diffSummary # <<>> => diff = diffOfRun(version, payload)

C23_Witness ==
    /\ pc = "cleanup"
    /\ \E f \in fsFiles : f.path = sarifPath
    /\ Len(calls) = 1
    /\ \E i \in 1..Len(calls[1].body) : IsRow(calls[1].body[i])
    /\ Len(diff.added) = 2
    /\ diff.added[1].riskScore < diff.added[2].riskScore
    /\ Map(SelectSeq(diffSummary, IsHeading), FileOfLine)
         = << stripFirstSegment(diff.added[2].file), stripFirstSegment(diff.added[1].file) >>
    /\ diff.added = diffOfRun(version, payload).added

---------------------------------------------------------------------------
(* Claims on the failure of the run *)

\* the check of the policy has run, and no call was rejected before it
PolicyChecked == pc \in {"cleanup", "done"} /\ failed # "error"

\* the run is failed when the risk increased and the policy is to fail
C24_RunFailed ==
    PolicyChecked /\ failOnIncrease /\ diff.riskIncreased => failed = "risk"

\* C24: when riskIncreased is true and fail-on-increase is set, the run is
\* failed with a message that prints the total risk delta.
C24_FailureNamesDelta ==
    PolicyChecked /\ failOnIncrease /\ diff.riskIncreased =>
        /\ failed = "risk"
        /\ Has(riskFailureMessage, "n")
        /\ riskFailureMessage.n = diff.totalRiskDelta

---------------------------------------------------------------------------
(* Claims on the flag and the total *)

\* one added file of positive score next to one removed file of greater score
SmallAddedLargeRemoved ==
    /\ pc = "parsed"
    /\ Len(diff.added) = 1
    /\ Len(diff.removed) = 1
    /\ Len(diff.changed) = 0
    /\ diff.added[1].riskScore > 0
    /\ diff.removed[1].riskScore > diff.added[1].riskScore

\* C25: a large reduction by a removed file next to a small increase by an
\* added file gives a DiffResult whose riskIncreased is false while its
\* totalRiskDelta is positive.
C25_FlagFalseDeltaPositive ==
    SmallAddedLargeRemoved => ~diff.riskIncreased /\ diff.totalRiskDelta > 0

\* C25, amended: a positive totalRiskDelta implies riskIncreased, and a
\* large reduction by a removed file next to a small increase by an added
\* file gives riskIncreased true while totalRiskDelta is negative.
C25_PositiveDeltaRaisesFlag ==
    /\ pc = "parsed" /\ diff.totalRiskDelta > 0 => diff.riskIncreased
    /\ SmallAddedLargeRemoved => diff.riskIncreased /\ diff.totalRiskDelta < 0

C25_Witness ==
    /\ SmallAddedLargeRemoved
    /\ diff.riskIncreased
    /\ diff.totalRiskDelta = diff.added[1].riskScore - diff.removed[1].riskScore

---------------------------------------------------------------------------
(* Claims on the verdict line of the summary *)

Verdict == diffSummary[1]

IncreasedVerdict == "## Security Risk Increased (+$1 points)"

DecreasedVerdict == "## Security Risk Decreased ($1 points)"

NoChangeVerdicts ==
    {"## Security Behaviors Changed (no net risk change)",
     "## No security-relevant changes detected"}

\* the verdict is one of the three
C26_OneOfThree ==
    pc # "start" /\ diffSummary # <<>> =>
        Verdict.t \in {IncreasedVerdict, DecreasedVerdict} \cup NoChangeVerdicts

\* C26: the first line of the summary says "increased" with the total
\* exactly when totalRiskDelta is positive, "decreased" with the total
\* exactly when it is negative, and no change otherwise; the text "no
\* security-relevant changes" stands only over three empty buckets.
C26_VerdictMatchesTotal ==
    pc # "start" /\ diffSummary # <<>> =>
        /\ Verdict.t = IncreasedVerdict <=> diff.totalRiskDelta > 0
        /\ Verdict.t = DecreasedVerdict <=> diff.totalRiskDelta < 0
        /\ Verdict.t \in NoChangeVerdicts <=> diff.totalRiskDelta = 0
        /\ Verdict.t \in {IncreasedVerdict, DecreasedVerdict} => Verdict.n = diff.totalRiskDelta
        /\ diffSummary = NoChangesSummary =>
             Len(diff.added) = 0 /\ Len(diff.removed) = 0 /\ Len(diff.changed) = 0

\* the text "no security-relevant changes" stands only over empty buckets
C26_NoChangesOnlyIfEmpty ==
    pc # "start" /\ diffSummary = NoChangesSummary =>
        Len(diff.added) = 0 /\ Len(diff.removed) = 0 /\ Len(diff.changed) = 0

---------------------------------------------------------------------------
(* Claims on where the findings go *)

\* the comment API is being called or has been called
TransportInvoked == pc \in {"list", "reconcile"} \/ comments # <<>> \/ calls # <<>>

\* the branch after the outputs has been passed without a rejected call
Delivered == pc \in {"failcheck", "cleanup", "done"} /\ failed # "error"

\* C27: the comment API is called only in a pull request with comment-on-pr
\* set; outside a pull request the summary is written to the workflow
\* summary and no comment call is made; the outputs are set before either.
C27_TransportOnlyInPullRequest ==
    /\ TransportInvoked => isPullRequest /\ commentOnPR /\ outputs.set
    /\ stepSummary => ~isPullRequest /\ outputs.set
    /\ ~isPullRequest => ~TransportInvoked
    /\ ~isPullRequest /\ Delivered => stepSummary
    /\ pc \in {"list", "summary"} => outputs.set

C27_Witness ==
    /\ Delivered
    /\ ~isPullRequest
    /\ commentOnPR
    /\ hasFindings(diff)
    /\ stepSummary
    /\ outputs.set
    /\ calls = <<>>

\* a comment is posted in a pull request with comment-on-pr set
C27_Posted ==
    /\ Delivered
    /\ isPullRequest
    /\ commentOnPR
    /\ Len(calls) = 1
    /\ ~stepSummary

---------------------------------------------------------------------------
(* Claims on the composite action *)

RankOf(level) == CHOOSE l \in 1..4 : RiskLevels[l] = level

MinRankOf(minRisk) ==
    CASE minRisk = "low" -> 1 [] minRisk = "medium" -> 2
      [] minRisk = "high" -> 3 [] minRisk = "critical" -> 4

\* the levels of the findings of the files of a bucket
LevelsIn(entries) ==
    UNION { (IF Has(entries[i].data, "RiskLevel") THEN {entries[i].data.RiskLevel} ELSE {})
            \cup {entries[i].data.Behaviors[j].RiskLevel :
                    j \in {k \in 1..Len(entries[i].data.Behaviors) :
                             Has(entries[i].data.Behaviors[k], "RiskLevel")}}
            : i \in 1..Len(entries) }

Exited == detect.status = "exited" /\ detect.code = detect.exitCode

\* C28: for min-risk low, medium, high or critical the detect step exits
\* with exit-code exactly when some finding of the Added, Removed or
\* Modified files has a risk level at or above min-risk; for any other
\* min-risk the step does not exit.
C28_ExitIffFindingAtOrAbove ==
    pc = "detected" =>
        IF detect.minRisk \in {"low", "medium", "high", "critical"}
        THEN Exited <=>
               \E level \in LevelsIn(payload.value.Diff.Added)
                            \cup LevelsIn(payload.value.Diff.Removed)
                            \cup LevelsIn(payload.value.Diff.Modified) :
                  RankOf(level) >= MinRankOf(detect.minRisk)
        ELSE detect.status = "passed"

\* the same over the findings of the modified files alone
C28_ExitIffModifiedAtOrAbove ==
    pc = "detected" =>
        IF detect.minRisk \in {"low", "medium", "high", "critical"}
        THEN Exited <=>
               \E level \in LevelsIn(payload.value.Diff.Modified) :
                  RankOf(level) >= MinRankOf(detect.minRisk)
        ELSE detect.status = "passed"

---------------------------------------------------------------------------
(* Claims on runs in sequence and on runs at the same time *)

MarkedIn(t) == {i \in 1..Len(t) : Marked(t[i])}

\* C29: from a thread without marked comment, through any number of runs in
\* sequence the thread holds at most one marked comment, and once there is
\* one every call of a run is an update of that comment.
C29_OneMarkedComment ==
    [][/\ Cardinality(MarkedIn(thread')) <= 1
       /\ (FirstMarked(thread) # 0 /\ Len(calls') = Len(calls) + 1) =>
             /\ calls'[Len(calls')].op = "update"
             /\ calls'[Len(calls')].comment_id = thread[FirstMarked(thread)].id
             /\ Len(thread') = Len(thread)
             /\ MarkedIn(thread') = MarkedIn(thread)]_vars

C29_Witness ==
    /\ Len(thread) = 2
    /\ ~Marked(thread[1])
    /\ thread[2].body = resolvedBody
    /\ Len(calls) = 1
    /\ calls[1].op = "update"
    /\ calls[1].comment_id = thread[2].id
    /\ NoEntries

BothEnded == pc = "done" /\ failed # "error" /\ other.pc = "done"

\* C30: when two runs on one pull request have both ended, however their
\* list and create or update calls were interleaved, the thread holds at
\* most one marked comment.
C30_OneMarkedAfterRace ==
    BothEnded => Cardinality(MarkedIn(thread)) <= 1

\* the same when the listing of each run held a marked comment
C30_OneMarkedWhenBothFound ==
    (BothEnded /\ FirstMarked(comments) # 0 /\ FirstMarked(other.comments) # 0)
        => Cardinality(MarkedIn(thread)) <= 1

====
